---- MODULE Spec2Model ----
(***************************************************************************)
(* Model of the authenticated HTTP client layer of moni                    *)
(* (crates/vertex_ai/src/client/mod.rs, duplicated in                      *)
(* crates/vertex_ai/src/lib.rs), of the typed endpoint calls built on it   *)
(* (discovery_engine/client.rs, data_store/data_store.rs, agent/gemini.rs) *)
(* and of the operation poller described in spec.md section 4.3.           *)
(*                                                                         *)
(* Each task is an async task making calls one after the other.  A call    *)
(* suspends while it awaits the OnceCell permit, gcp_auth::provider(), the *)
(* token and the HTTP round trip; the code between two awaits is one step. *)
(***************************************************************************)
EXTENDS Integers, Sequences, FiniteSets, TLC

\* ------------------------------------------------------------------ bounds
NumTasks == 2
MaxCalls == 1
MaxExpiries == 1
MaxTypedCalls == 2

Tasks == 1..NumTasks

\* --------------------------------------------------------------- constants
BASE_SCOPE == "https://www.googleapis.com/auth/cloud-platform"

ScopeSets == {<<BASE_SCOPE>>, <<"https://www.googleapis.com/auth/other">>}

\* -------------------------------------------------------------------- URLs
\* A URL string is a sequence of pieces; a piece naming a scheme comes first
\* in an absolute URL.
Schemes == {"https:", "http:"}

GoodUrl == <<"https:", "//example.googleapis.com/v1/things">>
BadUrl == <<"projects/p1/things">>
RawUrls == {GoodUrl, BadUrl}

NoParams == [some |-> FALSE, pairs |-> <<>>]
SomeParams == [some |-> TRUE, pairs |-> << <<"data_store_id", "ds 1">> >>]
ParamChoices == {NoParams, SomeParams}

\* application/x-www-form-urlencoded byte serialisation of one string
UrlEncode(s) ==
  CASE s = "ds 1" -> "ds+1"
    [] OTHER -> s

RECURSIVE QueryPieces(_)
QueryPieces(pairs) ==
  IF pairs = <<>> THEN <<>>
  ELSE <<UrlEncode(pairs[1][1]), "=", UrlEncode(pairs[1][2])>>
         \o (IF Len(pairs) > 1 THEN <<"&">> ELSE <<>>)
         \o QueryPieces(Tail(pairs))

\* reqwest::Url::parse: a string without a scheme is a relative URL without
\* a base, which is an error.
UrlParse(u) ==
  IF Len(u) > 0 /\ u[1] \in Schemes
  THEN [ok |-> TRUE, url |-> u]
  ELSE [ok |-> FALSE, url |-> <<>>]

\* reqwest::Url::parse_with_params: parse, then append the encoded pairs.
UrlParseWithParams(u, pairs) ==
  LET p == UrlParse(u) IN
  IF p.ok THEN [ok |-> TRUE, url |-> p.url \o <<"?">> \o QueryPieces(pairs)]
  ELSE p

\* ---------------------------------------------------------- tokens, headers
NoToken == [id |-> 0, safe |-> TRUE]
NoHeaders == <<>>

\* format!("Bearer {}", token.as_str())
BearerOf(token) == <<"Authorization", "Bearer", token.id>>

\* A body is JSON or not; a JSON object is the set of its top-level fields,
\* each with the kind of value it holds.  name and done are the values of the
\* fields of those names when the object has them.
Body(fields, name, done) ==
  [json |-> TRUE, fields |-> fields, name |-> name, done |-> done]

NotJson == [json |-> FALSE, fields |-> {}, name |-> "", done |-> FALSE]
NoBody == NotJson
NoResponse == [status |-> 0, body |-> NoBody]

NoRequest == [method |-> "none", url |-> <<>>, headers |-> NoHeaders, body |-> "none"]
\* the fields of a SearchChunksRequest beside its three path fields
NoSearchFields ==
  [serving_config |-> "", query |-> "", page_size |-> "None",
   page_token |-> "None", offset |-> "None", filter |-> "None",
   order_by |-> "None", content_search_spec |-> "default"]
NoArgs == [project_id |-> "", collections |-> "", data_store_id |-> "",
           create_advance_site_search |-> "None", search |-> NoSearchFields]
NoCall == [op |-> "none", api |-> "none", url |-> <<>>, scopes |-> <<>>,
           params |-> NoParams, body |-> "none", rq |-> NoArgs]
NoValue == [type |-> "none", name |-> "", done |-> FALSE]
NoAttempts == [provider |-> 0, token |-> 0]
NoPrior == [op |-> "none", done |-> FALSE]
NoOutcome == [kind |-> "none", status |-> 0, detail |-> "none", value |-> NoValue,
              body |-> NoBody]

\* ------------------------------------------------------- the page handlers
\* Option<String>
None == [some |-> FALSE, text |-> ""]
Some(s) == [some |-> TRUE, text |-> s]

\* what GeminiClient::request_text returned: Err, or a PostResult that is a
\* REST response (its candidates, each the texts of its content's parts) or
\* not one
NoPostResult == [kind |-> "none", candidates |-> <<>>]
NoContent == [kind |-> "none", text |-> ""]
NoReport == [pc |-> "idle", prompt |-> "", result |-> NoPostResult,
             content |-> NoContent]

\* what DataStoreClient::search returned: Err, or a SearchResponse (its
\* results, each the id of its document or 0 for none, and its summary text)
NoSearchResult == [kind |-> "none", has_results |-> FALSE, results |-> <<>>,
                   summary |-> None]
NoPage == [kind |-> "none", docs |-> <<>>, summary_text |-> ""]
NoListing == [pc |-> "idle", result |-> NoSearchResult, page |-> NoPage]

\* ------------------------------------------------------------ serde_json
\* serde_json::from_str::<T>: Err, or the value; and the round trip's state
NoDecoded == [ok |-> FALSE, x |-> <<>>]
NoCodec == [stage |-> "none", type |-> "", x |-> <<>>, json |-> {},
            back |-> NoDecoded]

\* ------------------------------------------------------------ the builders
\* GeminiAgentBuilder::new(): every field None; nothing built yet
NewAgentBuilder ==
  [project_id |-> None, location_id |-> None, api_endpoint |-> None,
   gcp_generative_language_api_key |-> None]
NoBuilt == [kind |-> "none", name |-> "", agent |-> NewAgentBuilder]
NoAgentBuilder ==
  [pc |-> "new", b |-> NewAgentBuilder, given |-> NewAgentBuilder,
   result |-> NoBuilt]

\* EmbedingRequestBuilder::new(): model, role and parts None
NewEmbedingBuilder ==
  [model |-> None, role |-> None, parts |-> [some |-> FALSE, list |-> <<>>]]
NoEmbedingRequest == [kind |-> "none", name |-> "", model |-> "", role |-> "",
                      parts |-> <<>>]
NoEmbedingBuilder ==
  [pc |-> "new", b |-> NewEmbedingBuilder, log |-> <<>>,
   result |-> NoEmbedingRequest]

\* ParagraphGenerator::generate not called yet
NoChunks == [pc |-> "idle", content |-> <<>>, out |-> <<>>]

VARIABLES
  TOKEN_PROVIDER,  \* the OnceCell: 0 while uninitialised, else the provider instance
  permit,          \* the task holding the OnceCell's semaphore permit, 0 if free
  provider_ok,     \* gcp_auth::provider() calls that returned Ok
  provider_err,    \* gcp_auth::provider() calls that returned Err
  cred,            \* the provider's cached credential per scope set
  window,          \* per scope set: how many cached credentials have expired
  acquisitions,    \* underlying token acquisitions that returned a token
  pc,              \* per task: where its current call is suspended
  cur,             \* per task: the call it is making (or made last)
  calls,           \* per task: calls started
  prior,           \* per task: the Operation its previous call returned
  seen,            \* per task: the provider instance token_provider() gave it
  waited,          \* per task: this call queued on the OnceCell's semaphore
  tok,             \* per task: the token this call obtained
  tokwin,          \* per task: the validity window that token was obtained in
  attempts,        \* per task: gcp_auth::provider() runs and underlying token
                   \* acquisitions attempted in this call
  acqfail,         \* per task: a credential acquisition of this call failed
  req,             \* per task: the HTTP request this call issued
  sends,           \* per task: HTTP requests this call has sent
  resp,            \* per task: the HTTP response this call received
  outcome,         \* per task: what the call returned
  poll_pc,         \* where poll is: "idle", "fetching", "sleeping", "returned"
  max_retries,     \* poll's retry budget
  retries,         \* poll's retry counter
  issued,          \* status fetches poll has issued
  fetched,         \* what each completed fetch reported, in order
  last_resp,       \* the response of the last completed fetch
  poll_result,     \* what poll returned
  report,          \* insight_report_page: its prompt, Gemini's result, its content
  listing,         \* get_documents: the search result and the page it renders
  codec,           \* serde_json: a typed value, its JSON encoding, and the
                   \* value decoded from that
  agent_builder,   \* a GeminiAgentBuilder, what its setters were given, and
                   \* what build returned
  embeding_builder,\* an EmbedingRequestBuilder, the calls made on it, and
                   \* what build returned
  chunks           \* ParagraphGenerator::generate: its input and its output

vars == <<TOKEN_PROVIDER, permit, provider_ok, provider_err, cred, window,
          acquisitions, pc, cur, calls, prior, seen, waited, tok, tokwin, attempts,
          acqfail, req, sends, resp, outcome, poll_pc, max_retries, retries, issued,
          fetched, last_resp, poll_result, report, listing, codec, agent_builder,
          embeding_builder, chunks>>

poll_vars == <<poll_pc, max_retries, retries, issued, fetched, last_resp,
               poll_result>>
call_vars == <<pc, cur, calls, prior, seen, waited, tok, tokwin, attempts, acqfail, req, sends,
               resp, outcome>>
route_vars == <<report, listing>>
lib_vars == <<codec, agent_builder, embeding_builder, chunks>>
provider_vars == <<TOKEN_PROVIDER, permit, provider_ok, provider_err>>
cred_vars == <<cred, window, acquisitions>>
service_vars == <<provider_vars, cred_vars, call_vars, poll_vars, route_vars>>

Init ==
  /\ TOKEN_PROVIDER = 0
  /\ permit = 0
  /\ provider_ok = 0
  /\ provider_err = 0
  /\ cred = [S \in ScopeSets |-> NoToken]
  /\ window = [S \in ScopeSets |-> 0]
  /\ acquisitions = 0
  /\ pc = [t \in Tasks |-> "idle"]
  /\ cur = [t \in Tasks |-> NoCall]
  /\ calls = [t \in Tasks |-> 0]
  /\ prior = [t \in Tasks |-> NoPrior]
  /\ seen = [t \in Tasks |-> 0]
  /\ waited = [t \in Tasks |-> FALSE]
  /\ tok = [t \in Tasks |-> NoToken]
  /\ tokwin = [t \in Tasks |-> 0]
  /\ attempts = [t \in Tasks |-> NoAttempts]
  /\ acqfail = [t \in Tasks |-> FALSE]
  /\ req = [t \in Tasks |-> NoRequest]
  /\ sends = [t \in Tasks |-> 0]
  /\ resp = [t \in Tasks |-> NoResponse]
  /\ outcome = [t \in Tasks |-> NoOutcome]
  /\ poll_pc = "idle"
  /\ max_retries = 0
  /\ retries = 0
  /\ issued = 0
  /\ fetched = <<>>
  /\ last_resp = NoResponse
  /\ poll_result = "none"
  /\ report = NoReport
  /\ listing = NoListing
  /\ codec = NoCodec
  /\ agent_builder = NoAgentBuilder
  /\ embeding_builder = NoEmbedingBuilder
  /\ chunks = NoChunks

\* ------------------------------------------------------- calls of the client
RawCall(op, api, url, scopes, params, body) ==
  [op |-> op, api |-> api, url |-> url, scopes |-> scopes, params |-> params,
   body |-> body, rq |-> NoArgs]

\* The calls a caller can make on Client directly.  api_get is
\* api_get_with_params with params = None.
RawCalls ==
  {RawCall("api_post", "api_post", u, S, NoParams, "json") :
     u \in RawUrls, S \in ScopeSets}
  \cup {RawCall("api_get", "api_get_with_params", u, S, NoParams, "none") :
     u \in RawUrls, S \in ScopeSets}
  \cup {RawCall("api_get_with_params", "api_get_with_params", u, S, SomeParams, "none") :
     u \in RawUrls, S \in ScopeSets}
  \cup {RawCall("api_delete", "api_delete", u, S, p, "none") :
     u \in RawUrls, S \in ScopeSets, p \in ParamChoices}

RawOps == {"api_post", "api_get", "api_get_with_params", "api_delete"}

\* A call starts: its per-call bookkeeping is fresh; the caller still holds
\* the Operation its previous call returned, if it returned one.
Begin(t, c, first) ==
  /\ pc[t] = "idle"
  /\ calls[t] < (IF c.op \in RawOps THEN MaxCalls ELSE MaxTypedCalls)
  /\ cur' = [cur EXCEPT ![t] = c]
  /\ calls' = [calls EXCEPT ![t] = @ + 1]
  /\ prior' = [prior EXCEPT ![t] =
       IF outcome[t].kind = "Ok" /\ outcome[t].value.type = "Operation"
       THEN [op |-> cur[t].op, done |-> outcome[t].value.done]
       ELSE NoPrior]
  /\ pc' = [pc EXCEPT ![t] = first]
  /\ waited' = [waited EXCEPT ![t] = FALSE]
  /\ tok' = [tok EXCEPT ![t] = NoToken]
  /\ tokwin' = [tokwin EXCEPT ![t] = 0]
  /\ attempts' = [attempts EXCEPT ![t] = NoAttempts]
  /\ acqfail' = [acqfail EXCEPT ![t] = FALSE]
  /\ resp' = [resp EXCEPT ![t] = NoResponse]
  /\ outcome' = [outcome EXCEPT ![t] = NoOutcome]

\* api_post / api_get_with_params / api_get / api_delete called by a task:
\* the first thing each does is auth_headers, which awaits token_provider().
CallRaw(t, c) ==
  /\ Begin(t, c, "get_or_init")
  /\ req' = [req EXCEPT ![t] = NoRequest]
  /\ sends' = [sends EXCEPT ![t] = 0]
  /\ UNCHANGED <<provider_vars, cred_vars, seen, poll_vars, route_vars, lib_vars>>

\* ------------------------------------------------- token_provider(): OnceCell
\* get_or_init without the semaphore: every caller that finds the cell empty
\* runs the initialiser.
GetOrInitRacy(t) ==
  /\ pc[t] = "get_or_init"
  /\ IF TOKEN_PROVIDER # 0
     THEN /\ seen' = [seen EXCEPT ![t] = TOKEN_PROVIDER]
          /\ pc' = [pc EXCEPT ![t] = "token"]
          /\ UNCHANGED <<permit, waited>>
     ELSE /\ permit' = t
          /\ pc' = [pc EXCEPT ![t] = "provider"]
          /\ UNCHANGED <<seen, waited>>
  /\ UNCHANGED <<TOKEN_PROVIDER, provider_ok, provider_err, cred_vars, cur,
                 calls, prior, tok, tokwin, attempts, acqfail, req, sends, resp, outcome,
                 poll_vars, route_vars, lib_vars>>

\* OnceCell::get_or_init: an initialised cell is returned at once; otherwise
\* the caller takes the semaphore's permit and runs the initialiser, or
\* queues for the permit while another task holds it.
GetOrInit(t) ==
  /\ pc[t] = "get_or_init"
  /\ IF TOKEN_PROVIDER # 0
     THEN /\ seen' = [seen EXCEPT ![t] = TOKEN_PROVIDER]
          /\ pc' = [pc EXCEPT ![t] = "token"]
          /\ UNCHANGED <<permit, waited>>
     ELSE IF permit = 0
     THEN /\ permit' = t
          /\ pc' = [pc EXCEPT ![t] = "provider"]
          /\ UNCHANGED <<seen, waited>>
     ELSE /\ waited' = [waited EXCEPT ![t] = TRUE]
          /\ pc' = [pc EXCEPT ![t] = "acquire_wait"]
          /\ UNCHANGED <<seen, permit>>
  /\ UNCHANGED <<TOKEN_PROVIDER, provider_ok, provider_err, cred_vars, cur,
                 calls, prior, tok, tokwin, attempts, acqfail, req, sends, resp, outcome,
                 poll_vars, route_vars, lib_vars>>

\* A queued task wakes: the cell was set meanwhile (the semaphore is closed),
\* or the permit came back without a value and this task initialises.
AcquireWake(t) ==
  /\ pc[t] = "acquire_wait"
  /\ \/ /\ TOKEN_PROVIDER # 0
        /\ seen' = [seen EXCEPT ![t] = TOKEN_PROVIDER]
        /\ pc' = [pc EXCEPT ![t] = "token"]
        /\ UNCHANGED permit
     \/ /\ TOKEN_PROVIDER = 0
        /\ permit = 0
        /\ permit' = t
        /\ pc' = [pc EXCEPT ![t] = "provider"]
        /\ UNCHANGED seen
  /\ UNCHANGED <<TOKEN_PROVIDER, provider_ok, provider_err, cred_vars, cur,
                 calls, prior, waited, tok, tokwin, attempts, acqfail, req, sends, resp,
                 outcome, poll_vars, route_vars, lib_vars>>

\* a failed gcp_auth::provider() is tried a second time inside the same call
ProviderDone_RetryInCall(t, ok) ==
  /\ pc[t] = "provider"
  /\ attempts' = [attempts EXCEPT ![t].provider = @ + 1]
  /\ IF ok
     THEN /\ provider_ok' = provider_ok + 1
          /\ TOKEN_PROVIDER' = provider_ok + provider_err + 1
          /\ seen' = [seen EXCEPT ![t] = provider_ok + provider_err + 1]
          /\ pc' = [pc EXCEPT ![t] = "token"]
          /\ permit' = 0
          /\ UNCHANGED <<provider_err, acqfail, outcome>>
     ELSE IF attempts[t].provider = 0
     THEN /\ provider_err' = provider_err + 1
          /\ UNCHANGED <<provider_ok, TOKEN_PROVIDER, seen, pc, permit, acqfail,
                         outcome>>
     ELSE /\ provider_err' = provider_err + 1
          /\ acqfail' = [acqfail EXCEPT ![t] = TRUE]
          /\ outcome' = [outcome EXCEPT ![t] =
               [kind |-> "panic", status |-> 0,
                detail |-> "unable to initialize token provider",
                value |-> NoValue, body |-> NoBody]]
          /\ pc' = [pc EXCEPT ![t] = "idle"]
          /\ permit' = 0
          /\ UNCHANGED <<provider_ok, TOKEN_PROVIDER, seen>>
  /\ UNCHANGED <<cred_vars, cur, calls, prior, waited, tok, tokwin, req, sends, resp, poll_vars, route_vars, lib_vars>>

\* gcp_auth::provider().await.expect(..) inside the initialiser: Ok stores the
\* new instance in the cell; Err panics the calling task, which drops the
\* permit and leaves the cell empty.
ProviderDone(t, ok) ==
  /\ pc[t] = "provider"
  /\ attempts' = [attempts EXCEPT ![t].provider = @ + 1]
  /\ permit' = 0
  /\ IF ok
     THEN /\ provider_ok' = provider_ok + 1
          /\ TOKEN_PROVIDER' = provider_ok + provider_err + 1
          /\ seen' = [seen EXCEPT ![t] = provider_ok + provider_err + 1]
          /\ pc' = [pc EXCEPT ![t] = "token"]
          /\ UNCHANGED <<provider_err, acqfail, outcome>>
     ELSE /\ provider_err' = provider_err + 1
          /\ acqfail' = [acqfail EXCEPT ![t] = TRUE]
          /\ outcome' = [outcome EXCEPT ![t] =
               [kind |-> "panic", status |-> 0,
                detail |-> "unable to initialize token provider",
                value |-> NoValue, body |-> NoBody]]
          /\ pc' = [pc EXCEPT ![t] = "idle"]
          /\ UNCHANGED <<provider_ok, TOKEN_PROVIDER, seen>>
  /\ UNCHANGED <<cred_vars, cur, calls, prior, waited, tok, tokwin, req, sends, resp, poll_vars, route_vars, lib_vars>>

\* ------------------------------------------------ the credential provider
Grants == {"granted", "granted_unsafe", "denied"}

\* token(scopes) without the cache: every call acquires.
token_NoCache(S, grant) ==
  IF grant = "denied"
  THEN [ok |-> FALSE, token |-> NoToken, acquired |-> FALSE, tried |-> TRUE]
  ELSE [ok |-> TRUE,
        token |-> [id |-> acquisitions + 1, safe |-> (grant = "granted")],
        acquired |-> TRUE, tried |-> TRUE]

\* TokenProvider::token(scopes): the cached credential while it is valid,
\* else one underlying acquisition, which the credential source grants or
\* denies.  A granted token may hold bytes no header value can ("unsafe").
token(S, grant) ==
  IF cred[S] # NoToken
  THEN [ok |-> TRUE, token |-> cred[S], acquired |-> FALSE, tried |-> FALSE]
  ELSE IF grant = "denied"
  THEN [ok |-> FALSE, token |-> NoToken, acquired |-> FALSE, tried |-> TRUE]
  ELSE [ok |-> TRUE,
        token |-> [id |-> acquisitions + 1, safe |-> (grant = "granted")],
        acquired |-> TRUE, tried |-> TRUE]

\* The cached credential of a scope set reaches its expiry instant.
Expire(S) ==
  /\ cred[S] # NoToken
  /\ window[S] < MaxExpiries
  /\ cred' = [cred EXCEPT ![S] = NoToken]
  /\ window' = [window EXCEPT ![S] = @ + 1]
  /\ UNCHANGED <<provider_vars, acquisitions, call_vars, poll_vars, route_vars, lib_vars>>

\* ------------------------------------------------------------ Client methods
\* Client::auth_headers after token_provider(): the token result becomes
\* Err(ProviderError), or a header map whose Authorization value is parsed
\* from "Bearer <token>" (parse().unwrap() panics on a value it cannot hold).
auth_headers(r) ==
  IF ~r.ok THEN [kind |-> "Err", headers |-> NoHeaders]
  ELSE IF ~r.token.safe THEN [kind |-> "panic", headers |-> NoHeaders]
  ELSE [kind |-> "Ok", headers |-> BearerOf(r.token)]

Sent(request) == [kind |-> "send", req |-> request, err |-> "none"]
Failed(e) == [kind |-> "err", req |-> NoRequest, err |-> e]

\* api_post that parses the url itself, as the get and delete methods do
api_post_UrlChecked(c, headers) ==
  IF UrlParse(c.url).ok
  THEN Sent([method |-> "POST", url |-> c.url, headers |-> headers, body |-> c.body])
  ELSE Failed("UrlParseError")

\* api_post that forgets .headers(headers)
api_post_NoHeaders(c, headers) ==
  IF UrlParse(c.url).ok
  THEN Sent([method |-> "POST", url |-> c.url, headers |-> NoHeaders, body |-> c.body])
  ELSE Failed("ClientError")

\* Client::api_post after auth_headers: the request builder takes the url as
\* given; send() on a builder whose url did not parse returns the builder's
\* error without touching the network.
api_post(c, headers) ==
  IF UrlParse(c.url).ok
  THEN Sent([method |-> "POST", url |-> c.url, headers |-> headers, body |-> c.body])
  ELSE Failed("ClientError")

\* Client::api_get_with_params after auth_headers
api_get_with_params(c, headers) ==
  LET p == IF c.params.some THEN UrlParseWithParams(c.url, c.params.pairs)
           ELSE UrlParse(c.url) IN
  IF p.ok
  THEN Sent([method |-> "GET", url |-> p.url, headers |-> headers, body |-> "none"])
  ELSE Failed("UrlParseError")

\* Client::api_delete after auth_headers
api_delete(c, headers) ==
  LET p == IF c.params.some THEN UrlParseWithParams(c.url, c.params.pairs)
           ELSE UrlParse(c.url) IN
  IF p.ok
  THEN Sent([method |-> "DELETE", url |-> p.url, headers |-> headers, body |-> "none"])
  ELSE Failed("UrlParseError")

Dispatch(c, headers) ==
  CASE c.api = "api_post" -> api_post(c, headers)
    [] c.api = "api_get_with_params" -> api_get_with_params(c, headers)
    [] c.api = "api_delete" -> api_delete(c, headers)

\* What a call returns: the kind of Ok or Err, the status it carries, the
\* decoded value and the response body it still holds.
Out(kind, status, detail) ==
  [kind |-> kind, status |-> status, detail |-> detail, value |-> NoValue,
   body |-> NoBody]

\* Ok(response): the raw response, body unread
OkResponse(r) ==
  [kind |-> "Ok", status |-> r.status, detail |-> "response", value |-> NoValue,
   body |-> r.body]

\* A typed method wraps the client's error: .map_err(Error::ClientError);
\* VertexClient's methods share one error type and pass it on with ?
Wrap(c, o) ==
  IF c.op \in RawOps \cup {"VertexClient::create_data_store"} THEN o
  ELSE Out("ClientError", 0, o.kind)

\* The call of task t returns (or panics) with outcome o.
Return(t, o) ==
  /\ outcome' = [outcome EXCEPT ![t] = o]
  /\ pc' = [pc EXCEPT ![t] = "idle"]

\* auth_headers placed after the url is parsed: a get or delete with a
\* malformed url returns UrlParseError without asking for a token
AuthHeaders_ParseFirst(t, grant) ==
  /\ pc[t] = "token"
  /\ LET c == cur[t]
         early == c.api # "api_post" /\ Dispatch(c, NoHeaders).kind = "err"
         r == token(c.scopes, grant)
         h == auth_headers(r)
         plan == Dispatch(c, h.headers)
     IN
     /\ attempts' = [attempts EXCEPT ![t].token = IF r.tried /\ ~early THEN @ + 1 ELSE @]
     /\ acqfail' = [acqfail EXCEPT ![t] = ~r.ok /\ ~early]
     /\ acquisitions' = IF r.acquired /\ ~early THEN acquisitions + 1 ELSE acquisitions
     /\ cred' = IF r.acquired /\ ~early THEN [cred EXCEPT ![c.scopes] = r.token] ELSE cred
     /\ tok' = [tok EXCEPT ![t] = IF early THEN NoToken ELSE r.token]
     /\ tokwin' = [tokwin EXCEPT ![t] = window[c.scopes]]
     /\ CASE early ->
               /\ Return(t, Wrap(c, Out("UrlParseError", 0, "none")))
               /\ UNCHANGED <<req, sends>>
          [] ~early /\ h.kind = "Err" ->
               /\ Return(t, Wrap(c, Out("ProviderError", 0, "none")))
               /\ UNCHANGED <<req, sends>>
          [] ~early /\ h.kind = "panic" ->
               /\ Return(t, Out("panic", 0, "invalid header value"))
               /\ UNCHANGED <<req, sends>>
          [] ~early /\ h.kind = "Ok" /\ plan.kind = "err" ->
               /\ Return(t, Wrap(c, Out(plan.err, 0, "none")))
               /\ UNCHANGED <<req, sends>>
          [] ~early /\ h.kind = "Ok" /\ plan.kind = "send" ->
               /\ req' = [req EXCEPT ![t] = plan.req]
               /\ sends' = [sends EXCEPT ![t] = @ + 1]
               /\ pc' = [pc EXCEPT ![t] = "http"]
               /\ UNCHANGED outcome
  /\ UNCHANGED <<provider_vars, window, cur, calls, prior, seen, waited, resp, poll_vars, route_vars, lib_vars>>

\* token(scopes).await returns inside auth_headers; the code up to the next
\* await runs: the header map is built, the url is parsed (get, delete) and
\* send() issues the request.
AuthHeaders(t, grant) ==
  /\ pc[t] = "token"
  /\ LET c == cur[t]
         r == token(c.scopes, grant)
         h == auth_headers(r)
         plan == Dispatch(c, h.headers)
     IN
     /\ attempts' = [attempts EXCEPT ![t].token = IF r.tried THEN @ + 1 ELSE @]
     /\ acqfail' = [acqfail EXCEPT ![t] = ~r.ok]
     /\ acquisitions' = IF r.acquired THEN acquisitions + 1 ELSE acquisitions
     /\ cred' = IF r.acquired THEN [cred EXCEPT ![c.scopes] = r.token] ELSE cred
     /\ tok' = [tok EXCEPT ![t] = r.token]
     /\ tokwin' = [tokwin EXCEPT ![t] = window[c.scopes]]
     /\ CASE h.kind = "Err" ->
               /\ Return(t, Wrap(c, Out("ProviderError", 0, "none")))
               /\ UNCHANGED <<req, sends>>
          [] h.kind = "panic" ->
               /\ Return(t, Out("panic", 0, "invalid header value"))
               /\ UNCHANGED <<req, sends>>
          [] h.kind = "Ok" /\ plan.kind = "err" ->
               /\ Return(t, Wrap(c, Out(plan.err, 0, "none")))
               /\ UNCHANGED <<req, sends>>
          [] h.kind = "Ok" /\ plan.kind = "send" ->
               /\ req' = [req EXCEPT ![t] = plan.req]
               /\ sends' = [sends EXCEPT ![t] = @ + 1]
               /\ pc' = [pc EXCEPT ![t] = "http"]
               /\ UNCHANGED outcome
  /\ UNCHANGED <<provider_vars, window, cur, calls, prior, seen, waited, resp, poll_vars, route_vars, lib_vars>>

\* ------------------------------------------------------ typed endpoint calls
ProjectIds == {"p1", "moni-429523"}
Collections == {"default_collection"}
DataStoreIds == {"ds1"}

Args(p, c, d, a) ==
  [project_id |-> p, collections |-> c, data_store_id |-> d,
   create_advance_site_search |-> a, search |-> NoSearchFields]

\* SearchChunksRequest values: one, one that differs from it in the query
\* alone, and one that differs in every field beside the path fields
SearchChunksFields ==
  {[NoSearchFields EXCEPT !.serving_config = "default_search", !.query = "q1"],
   [NoSearchFields EXCEPT !.serving_config = "default_search", !.query = "q2"],
   [serving_config |-> "other_config", query |-> "q3", page_size |-> "Some(10)",
    page_token |-> "Some(t)", offset |-> "Some(5)", filter |-> "Some(f)",
    order_by |-> "Some(o)", content_search_spec |-> "chunks"]}

SearchChunksRequest(p, c, d, s) == [Args(p, c, d, "None") EXCEPT !.search = s]

\* unwrap_or(true) in place of unwrap_or(false)
AdvanceSiteSearch_DefaultTrue(a) ==
  CASE a = "Some(true)" -> "true"
    [] a = "Some(false)" -> "false"
    [] a = "None" -> "true"

\* bool::to_string of request.create_advance_site_search.unwrap_or(false)
AdvanceSiteSearch(a) ==
  CASE a = "Some(true)" -> "true"
    [] a = "Some(false)" -> "false"
    [] a = "None" -> "false"

DiscoveryEngine == "//discoveryengine.googleapis.com"

\* a typed method that asks for a token of another scope
TypedCall_OtherScope(op, api, url, params, body, rq) ==
  [op |-> op, api |-> api, url |-> url,
   scopes |-> <<"https://www.googleapis.com/auth/other">>,
   params |-> params, body |-> body, rq |-> rq]

TypedCall(op, api, url, params, body, rq) ==
  [op |-> op, api |-> api, url |-> url, scopes |-> <<BASE_SCOPE>>,
   params |-> params, body |-> body, rq |-> rq]

\* DataStoreClient::create_data_store up to api_post
create_data_store(rq) ==
  LET url == UrlParseWithParams(
        <<"https:", DiscoveryEngine, "/v1beta/projects/", rq.project_id,
          "/locations/", "global", "/collections/", rq.collections, "/dataStores">>,
        << <<"dataStoreId", rq.data_store_id>>,
           <<"createAdvancedSiteSearch",
             AdvanceSiteSearch(rq.create_advance_site_search)>> >>)
  IN TypedCall("create_data_store", "api_post", url.url, NoParams,
               "request.data_store", rq)

\* VertexClient::create_data_store (the crate root's client) up to api_post
VertexClient_create_data_store(rq) ==
  LET url == UrlParseWithParams(
        <<"https:", DiscoveryEngine, "/v1/projects/", rq.project_id,
          "/locations/", "global", "/collections/", rq.collections, "/dataStores">>,
        << <<"dataStoreId", rq.data_store_id>>,
           <<"createAdvancedSiteSearch",
             AdvanceSiteSearch(rq.create_advance_site_search)>> >>)
  IN TypedCall("VertexClient::create_data_store", "api_post", url.url, NoParams,
               "request.data_store", rq)

\* DataStoreClient::setup_data_connector up to api_post
setup_data_connector(rq) ==
  LET url == UrlParse(
        <<"https:", DiscoveryEngine, "/v1/projects/", rq.project_id,
          "/locations/", "global", "/global:setUpDataConnector">>)
  IN TypedCall("setup_data_connector", "api_post", url.url, NoParams, "request", rq)

\* DataStoreClient::delete_data_store up to api_delete
delete_data_store(rq) ==
  TypedCall("delete_data_store", "api_delete",
    <<"https:", DiscoveryEngine, "/v1/projects/", rq.project_id, "/locations/",
      "global", "/collections/", rq.collections, "/dataStores/", rq.data_store_id>>,
    NoParams, "none", rq)

\* DataStoreClient::get_data_store up to api_get_with_params
get_data_store(rq) ==
  TypedCall("get_data_store", "api_get_with_params",
    <<"https:", DiscoveryEngine, "/v1/projects/", rq.project_id, "/locations/",
      "global", "/collections/", rq.collections, "/dataStores">>,
    [some |-> TRUE, pairs |-> << <<"data_store_id", rq.data_store_id>> >>],
    "none", rq)

\* search_chunks that sends the request's query as a query parameter
search_chunks_WithQuery(rq) ==
  TypedCall("search_chunks", "api_get_with_params",
    <<"https:", DiscoveryEngine, "/v1alpha/projects/", rq.project_id, "/locations/",
      "global", "/collections/", rq.collections, "/dataStores/", rq.data_store_id,
      "/servingConfigs/default_search:search">>,
    [some |-> TRUE, pairs |-> << <<"query", rq.search.query>> >>], "none", rq)

\* DataStoreClient::search_chunks up to api_get_with_params
search_chunks(rq) ==
  TypedCall("search_chunks", "api_get_with_params",
    <<"https:", DiscoveryEngine, "/v1alpha/projects/", rq.project_id, "/locations/",
      "global", "/collections/", rq.collections, "/dataStores/", rq.data_store_id,
      "/servingConfigs/default_search:search">>,
    NoParams, "none", rq)

\* the server_config string of search and answer
server_config(rq) ==
  <<"projects/", rq.project_id, "/locations/", "global",
    "/collections/default_collection/engines/", "moni-demo-final_1722720080773",
    "/servingConfigs/default_serving_config">>

\* DataStoreClient::search up to api_post
search(rq) ==
  TypedCall("search", "api_post",
    <<"https:", DiscoveryEngine, "/v1beta/">> \o server_config(rq) \o <<":search">>,
    NoParams, "request.discovery_engine_search_request", rq)

\* DataStoreClient::answer up to api_post
answer(rq) ==
  TypedCall("answer", "api_post",
    <<"https:", DiscoveryEngine, "/v1beta/">> \o server_config(rq) \o <<":answer">>,
    NoParams, "request.discovery_engine_answer_request", rq)

\* GeminiAgent::gen_embedings up to send(): a plain reqwest client, the API
\* key in the query string, no auth_headers.
gen_embedings_request ==
  [method |-> "POST",
   url |-> <<"https:", "//generativelanguage.googleapis.com",
             "/v1beta/models/text-embedding-004:embedContent", "?", "key", "=",
             "gcp_generative_language_api_key">>,
   headers |-> NoHeaders, body |-> "request"]

gen_embedings ==
  [op |-> "gen_embedings", api |-> "reqwest", url |-> gen_embedings_request.url,
   scopes |-> <<>>, params |-> NoParams, body |-> "request", rq |-> NoArgs]

PathArgs ==
  {Args(p, c, d, "None") : p \in ProjectIds, c \in Collections, d \in DataStoreIds}

ClientTypedCalls ==
  {create_data_store(Args(p, c, d, a)) :
     p \in ProjectIds, c \in Collections, d \in DataStoreIds,
     a \in {"None", "Some(true)", "Some(false)"}}
  \cup {VertexClient_create_data_store(Args(p, c, d, a)) :
     p \in ProjectIds, c \in Collections, d \in DataStoreIds,
     a \in {"None", "Some(true)", "Some(false)"}}
  \cup {setup_data_connector(rq) : rq \in PathArgs}
  \cup {delete_data_store(rq) : rq \in PathArgs}
  \cup {get_data_store(rq) : rq \in PathArgs}
  \cup {search_chunks(SearchChunksRequest(p, c, d, s)) :
     p \in ProjectIds, c \in Collections, d \in DataStoreIds,
     s \in SearchChunksFields}
  \cup {search(rq) : rq \in PathArgs}
  \cup {answer(rq) : rq \in PathArgs}

TypedOps ==
  {"create_data_store", "VertexClient::create_data_store", "setup_data_connector",
   "delete_data_store", "get_data_store", "search_chunks", "search", "answer",
   "gen_embedings"}

\* A typed method of DataStoreClient is called: it builds its url and awaits
\* the client's api_post / api_get_with_params / api_delete.
CallTyped(t, c) ==
  /\ Begin(t, c, "get_or_init")
  /\ req' = [req EXCEPT ![t] = NoRequest]
  /\ sends' = [sends EXCEPT ![t] = 0]
  /\ UNCHANGED <<provider_vars, cred_vars, seen, poll_vars, route_vars, lib_vars>>

\* gen_embedings is called: the request is sent at once.
CallEmbedings(t) ==
  /\ Begin(t, gen_embedings, "http")
  /\ req' = [req EXCEPT ![t] = gen_embedings_request]
  /\ sends' = [sends EXCEPT ![t] = 1]
  /\ UNCHANGED <<provider_vars, cred_vars, seen, poll_vars, route_vars, lib_vars>>

\* --------------------------------------------------------- response bodies
OperationPayloads ==
  {{}, {<<"response", "string_map">>}, {<<"response", "object">>},
   {<<"error", "status">>}, {<<"metadata", "typed_object">>}}

OperationBody(name, done, payload) ==
  Body({<<"name", "string">>, <<"done", "bool">>} \cup payload, name, done)

ErrorBody == Body({<<"error", "status">>}, "", FALSE)

DataStoreBody ==
  Body({<<"name", "string">>, <<"display_name", "string">>,
        <<"industry_vertical", "IndustryVertical">>,
        <<"solution_types", "SolutionType_array">>,
        <<"content_config", "ContentConfig">>}, "ds1", FALSE)

ConnectorBody ==
  Body({<<"name", "string">>, <<"response", "ResponseDataConnector">>}, "op1", FALSE)

SearchBody ==
  Body({<<"results", "SearchResult_array">>, <<"summary", "Summary">>}, "", FALSE)

ChunksBody == Body({<<"chunks", "Chunk_array">>}, "", FALSE)

AnswerBody ==
  Body({<<"name", "string">>, <<"state", "State">>, <<"answerText", "string">>,
        <<"citations", "Citation_array">>, <<"references", "AnswerReference_array">>,
        <<"relatedQuestions", "string_array">>, <<"steps", "Step_array">>},
       "answer1", FALSE)

EmbeddingBody == Body({<<"embedding", "Embedings">>}, "", FALSE)

\* What serde's derived Deserialize asks of a JSON object: the required
\* fields are there, and every field the struct knows holds its kind of value;
\* fields the struct does not know are skipped.
Schema(T) ==
  CASE T = "Operation" ->
         [required |-> {"name", "done"},
          kinds |-> {<<"name", "string">>, <<"done", "bool">>,
                     <<"metadata", "typed_object">>, <<"response", "string_map">>}]
    [] T = "lib::Operation" ->
         [required |-> {"name", "done", "response"},
          kinds |-> {<<"name", "string">>, <<"done", "bool">>,
                     <<"metadata", "typed_object">>, <<"response", "string_map">>}]
    [] T = "SetupDataConnectorResponse" ->
         [required |-> {"name", "response"},
          kinds |-> {<<"name", "string">>, <<"response", "ResponseDataConnector">>}]
    [] T = "DataStore" ->
         [required |-> {"name", "display_name", "industry_vertical",
                        "solution_types", "content_config"},
          kinds |-> {<<"name", "string">>, <<"display_name", "string">>,
                     <<"industry_vertical", "IndustryVertical">>,
                     <<"solution_types", "SolutionType_array">>,
                     <<"content_config", "ContentConfig">>}]
    [] T = "SearchChunksResponse" ->
         [required |-> {"chunks"},
          kinds |-> {<<"chunks", "Chunk_array">>}]
    [] T = "SearchResponse" ->
         [required |-> {},
          kinds |-> {<<"results", "SearchResult_array">>, <<"summary", "Summary">>}]
    [] T = "Answer" ->
         [required |-> {"name", "state", "answerText", "citations", "references",
                        "relatedQuestions", "steps"},
          kinds |-> {<<"name", "string">>, <<"state", "State">>,
                     <<"answerText", "string">>, <<"citations", "Citation_array">>,
                     <<"references", "AnswerReference_array">>,
                     <<"relatedQuestions", "string_array">>,
                     <<"steps", "Step_array">>}]
    [] T = "EmbedingResponse" ->
         [required |-> {"embedding"},
          kinds |-> {<<"embedding", "Embedings">>}]

\* a Deserialize that refuses fields the struct does not know
\* (#[serde(deny_unknown_fields)])
Decodes_DenyUnknown(T, b) ==
  /\ b.json
  /\ \A n \in Schema(T).required : \E f \in b.fields : f[1] = n
  /\ \A f \in b.fields : f \in Schema(T).kinds

\* response.json::<T>()
Decodes(T, b) ==
  /\ b.json
  /\ \A n \in Schema(T).required : \E f \in b.fields : f[1] = n
  /\ \A f \in b.fields :
       (\E k \in Schema(T).kinds : k[1] = f[1]) => f \in Schema(T).kinds

\* the returned Operation is reported finished whatever the remote said
Decoded_AlwaysDone(T, b) ==
  [type |-> T,
   name |-> IF \E f \in b.fields : f[1] = "name" THEN b.name ELSE "",
   done |-> T \in {"Operation", "lib::Operation"}]

Decoded(T, b) ==
  [type |-> T,
   name |-> IF \E f \in b.fields : f[1] = "name" THEN b.name ELSE "",
   done |-> IF T \in {"Operation", "lib::Operation"} THEN b.done ELSE FALSE]

ResultType(op) ==
  CASE op \in {"create_data_store", "delete_data_store"} -> "Operation"
    [] op = "VertexClient::create_data_store" -> "lib::Operation"
    [] op = "setup_data_connector" -> "SetupDataConnectorResponse"
    [] op = "get_data_store" -> "DataStore"
    [] op = "search_chunks" -> "SearchChunksResponse"
    [] op = "search" -> "SearchResponse"
    [] op = "answer" -> "Answer"
    [] op = "gen_embedings" -> "EmbedingResponse"

\* reqwest::Response::error_for_status: an error for a 4xx or 5xx status
error_for_status(r) == r.status \in 400..599

\* A DataStoreClient method after the client call returned Ok(response):
\* .error_for_status().map_err(Error::HttpStatus)?, then
\* response.json().await.map_err(Error::ResponseJsonParsing)?
typed_result(c, r) ==
  IF error_for_status(r) THEN Out("HttpStatus", r.status, "status")
  ELSE IF Decodes(ResultType(c.op), r.body)
  THEN [kind |-> "Ok", status |-> r.status, detail |-> "typed",
        value |-> Decoded(ResultType(c.op), r.body), body |-> NoBody]
  ELSE Out("ResponseJsonParsing", r.status, "decode")

\* gen_embedings after send() returned Ok(resp): resp.json::<EmbedingResponse>()
\* with .map_err(GemineAgentError::HTTPClient)?
gen_embedings_result(r) ==
  IF Decodes("EmbedingResponse", r.body)
  THEN [kind |-> "Ok", status |-> r.status, detail |-> "typed",
        value |-> Decoded("EmbedingResponse", r.body), body |-> NoBody]
  ELSE Out("HTTPClient", r.status, "decode")

\* ------------------------------------------------------------ the remote end
Statuses == {200, 304, 404, 500}
RawStatuses == {200, 404, 500}
RawResponses == [status : RawStatuses, body : {NotJson}]

TypedBodies ==
  {NotJson, ErrorBody, DataStoreBody, ConnectorBody, SearchBody, ChunksBody,
   AnswerBody, EmbeddingBody}
  \cup {OperationBody("op1", d, p) : d \in BOOLEAN, p \in OperationPayloads}
TypedResponses == [status : Statuses, body : TypedBodies]

\* the client checks the status itself: a 4xx or 5xx answer becomes an error
Respond_ErrorForStatus(t, transport_ok, r) ==
  /\ pc[t] = "http"
  /\ LET c == cur[t] IN
     IF ~transport_ok
     THEN /\ Return(t, IF c.op = "gen_embedings" THEN Out("HTTPClient", 0, "send")
                       ELSE Wrap(c, Out("ClientError", 0, "none")))
          /\ UNCHANGED resp
     ELSE /\ resp' = [resp EXCEPT ![t] = r]
          /\ Return(t, CASE c.op \in RawOps ->
                              IF error_for_status(r) THEN Out("ClientError", r.status, "status")
                              ELSE OkResponse(r)
                         [] c.op = "gen_embedings" -> gen_embedings_result(r)
                         [] OTHER -> typed_result(c, r))
  /\ UNCHANGED <<provider_vars, cred_vars, cur, calls, prior, seen, waited, tok, tokwin,
                 attempts, acqfail, req, sends, poll_vars, route_vars, lib_vars>>

\* a send that failed is tried once more before the call gives up
Respond_Resend(t, transport_ok, r) ==
  /\ pc[t] = "http"
  /\ LET c == cur[t] IN
     IF ~transport_ok /\ sends[t] < 2
     THEN /\ sends' = [sends EXCEPT ![t] = @ + 1]
          /\ UNCHANGED <<resp, outcome, pc>>
     ELSE IF ~transport_ok
     THEN /\ Return(t, IF c.op = "gen_embedings" THEN Out("HTTPClient", 0, "send")
                       ELSE Wrap(c, Out("ClientError", 0, "none")))
          /\ UNCHANGED <<resp, sends>>
     ELSE /\ resp' = [resp EXCEPT ![t] = r]
          /\ Return(t, CASE c.op \in RawOps -> OkResponse(r)
                         [] c.op = "gen_embedings" -> gen_embedings_result(r)
                         [] OTHER -> typed_result(c, r))
          /\ UNCHANGED sends
  /\ UNCHANGED <<provider_vars, cred_vars, cur, calls, prior, seen, waited, tok, tokwin,
                 attempts, acqfail, req, poll_vars, route_vars, lib_vars>>

\* send().await returns.  In the client a transport failure becomes
\* Err(ClientError) and any response, whatever its status, is handed back as it
\* came; a typed method then checks the status and decodes the body.
Respond(t, transport_ok, r) ==
  /\ pc[t] = "http"
  /\ LET c == cur[t] IN
     IF ~transport_ok
     THEN /\ Return(t, IF c.op = "gen_embedings" THEN Out("HTTPClient", 0, "send")
                       ELSE Wrap(c, Out("ClientError", 0, "none")))
          /\ UNCHANGED resp
     ELSE /\ resp' = [resp EXCEPT ![t] = r]
          /\ Return(t, CASE c.op \in RawOps -> OkResponse(r)
                         [] c.op = "gen_embedings" -> gen_embedings_result(r)
                         [] OTHER -> typed_result(c, r))
  /\ UNCHANGED <<provider_vars, cred_vars, cur, calls, prior, seen, waited, tok, tokwin,
                 attempts, acqfail, req, sends, poll_vars, route_vars, lib_vars>>

\* ------------------------------------------------------------ specification
Next ==
  \/ \E t \in Tasks, c \in RawCalls : CallRaw(t, c)
  \/ \E t \in Tasks : GetOrInit(t)
  \/ \E t \in Tasks : AcquireWake(t)
  \/ \E t \in Tasks, ok \in BOOLEAN : ProviderDone(t, ok)
  \/ \E t \in Tasks, grant \in Grants : AuthHeaders(t, grant)
  \/ \E t \in Tasks, r \in RawResponses : Respond(t, TRUE, r)
  \/ \E t \in Tasks : Respond(t, FALSE, NoResponse)
  \/ \E S \in ScopeSets : Expire(S)

Spec == Init /\ [][Next]_vars

\* The typed endpoint calls, made one after the other by one task.
EndpointTask == CHOOSE t \in Tasks : \A u \in Tasks : t <= u

NextEndpoint ==
  \/ \E c \in ClientTypedCalls : CallTyped(EndpointTask, c)
  \/ CallEmbedings(EndpointTask)
  \/ GetOrInit(EndpointTask)
  \/ \E ok \in BOOLEAN : ProviderDone(EndpointTask, ok)
  \/ \E grant \in Grants : AuthHeaders(EndpointTask, grant)
  \/ \E r \in TypedResponses : Respond(EndpointTask, TRUE, r)
  \/ Respond(EndpointTask, FALSE, NoResponse)
  \/ \E S \in ScopeSets : Expire(S)

SpecEndpoint == Init /\ [][NextEndpoint]_vars

\* ------------------------------------------------------ the operation poller
MaxRetriesArg == 3
DefaultMaxRetries == 20
DefaultIntervalSeconds == 5

\* poll_operation(request, max_retries, interval_seconds): None means the
\* default.
MaxRetriesChoices ==
  {[some |-> FALSE, v |-> 0]} \cup {[some |-> TRUE, v |-> n] : n \in 1..MaxRetriesArg}
RetryBudget(arg) == IF arg.some THEN arg.v ELSE DefaultMaxRetries

\* One status fetch: a GET through the client whose response goes the way of
\* every typed call, status check and then decoding into Operation.
fetch_result(transport_ok, r) ==
  IF ~transport_ok THEN "failed"
  ELSE IF error_for_status(r) THEN "failed"
  ELSE IF ~Decodes("Operation", r.body) THEN "failed"
  ELSE IF Decoded("Operation", r.body).done THEN "done"
  ELSE "pending"

\* the retry counter is checked before the done flag
poll_step_CountFirst(f, n, budget) ==
  CASE f = "failed" -> [result |-> "failure", retries |-> n]
    [] f \in {"done", "pending"} ->
         [result |-> IF n + 1 = budget THEN "timeout"
                     ELSE IF f = "done" THEN "success" ELSE "none",
          retries |-> n + 1]

\* the budget is compared with > instead of =
poll_step_OffByOne(f, n, budget) ==
  CASE f = "failed" -> [result |-> "failure", retries |-> n]
    [] f = "done" -> [result |-> "success", retries |-> n]
    [] f = "pending" ->
         [result |-> IF n + 1 > budget THEN "timeout" ELSE "none",
          retries |-> n + 1]

\* a failed fetch is counted as a retry instead of ending the poll
poll_step_RetryOnError(f, n, budget) ==
  CASE f = "done" -> [result |-> "success", retries |-> n]
    [] f \in {"failed", "pending"} ->
         [result |-> IF n + 1 = budget THEN "timeout" ELSE "none",
          retries |-> n + 1]

\* One turn of poll's loop on a completed fetch: what poll returns ("none"
\* when it goes on) and the retry counter afterwards.
poll_step(f, n, budget) ==
  CASE f = "failed" -> [result |-> "failure", retries |-> n]
    [] f = "done" -> [result |-> "success", retries |-> n]
    [] f = "pending" ->
         [result |-> IF n + 1 = budget THEN "timeout" ELSE "none",
          retries |-> n + 1]

\* poll is called; its first fetch is issued.
PollStart(arg) ==
  /\ poll_pc = "idle"
  /\ max_retries' = RetryBudget(arg)
  /\ retries' = 0
  /\ issued' = 1
  /\ fetched' = <<>>
  /\ poll_result' = "none"
  /\ poll_pc' = "fetching"
  /\ UNCHANGED <<last_resp, provider_vars, cred_vars, call_vars, route_vars, lib_vars>>

\* The fetch in flight completes and the loop body runs to its return or to
\* the sleep.
PollFetch(transport_ok, r) ==
  /\ poll_pc = "fetching"
  /\ LET f == fetch_result(transport_ok, r)
         st == poll_step(f, retries, max_retries)
     IN
     /\ fetched' = Append(fetched, f)
     /\ last_resp' = IF transport_ok THEN r ELSE NoResponse
     /\ retries' = st.retries
     /\ poll_result' = st.result
     /\ poll_pc' = IF st.result = "none" THEN "sleeping" ELSE "returned"
  /\ UNCHANGED <<max_retries, issued, provider_vars, cred_vars, call_vars, route_vars, lib_vars>>

\* sleep(interval_seconds) is over: the next fetch is issued.
PollWake ==
  /\ poll_pc = "sleeping"
  /\ issued' = issued + 1
  /\ poll_pc' = "fetching"
  /\ UNCHANGED <<max_retries, retries, fetched, last_resp, poll_result,
                 provider_vars, cred_vars, call_vars, route_vars, lib_vars>>

\* The responses a status fetch can get.
PollResponses ==
  [status : Statuses,
   body : {NotJson, ErrorBody}
          \cup {OperationBody("op1", d, p) : d \in BOOLEAN, p \in OperationPayloads}]

NextPoll ==
  \/ \E arg \in MaxRetriesChoices : PollStart(arg)
  \/ \E r \in PollResponses : PollFetch(TRUE, r)
  \/ PollFetch(FALSE, NoResponse)
  \/ PollWake

SpecPoll == Init /\ [][NextPoll]_vars

\* ============================================================ page handlers
MaxCandidates == 2
MaxParts == 2
MaxResults == 3

SeqsUpTo(S, n) == UNION {[1..k -> S] : k \in 0..n}

Prompts == {"report prompt", "What is the capital of France?"}
Texts == {"Paris", "Lyon"}
PartTexts == {None} \cup {Some(s) : s \in Texts}
Candidates == SeqsUpTo(PartTexts, MaxParts)

\* every way the Gemini call can end
PostResults ==
  {[kind |-> "Err", candidates |-> <<>>], [kind |-> "Streamed", candidates |-> <<>>]}
  \cup {[kind |-> "Rest", candidates |-> cs] : cs \in SeqsUpTo(Candidates, MaxCandidates)}

\* insight_report_page's match on the result of request_text:
\* candidates[0].content.parts[0].text.as_ref().unwrap_or(&default_value);
\* indexing an empty Vec panics.
report_content(result) ==
  CASE result.kind = "Err" -> [kind |-> "string", text |-> "Error calling Gemini API"]
    [] result.kind = "Rest" ->
         IF Len(result.candidates) = 0 \/ Len(result.candidates[1]) = 0
         THEN [kind |-> "panic", text |-> "index out of bounds"]
         ELSE LET text == result.candidates[1][1] IN
              [kind |-> "string",
               text |-> IF text.some THEN text.text ELSE "no answer from Gemini"]
    [] OTHER -> [kind |-> "string", text |-> "no answer from Gemini"]

\* insight_report_page builds its prompt and awaits request_text(prompt)
RequestText(prompt) ==
  /\ report.pc = "idle"
  /\ report' = [pc |-> "request_text", prompt |-> prompt, result |-> NoPostResult,
                content |-> NoContent]
  /\ UNCHANGED <<provider_vars, cred_vars, call_vars, poll_vars, listing, lib_vars>>

\* request_text returns; the handler computes the report's content
InsightReportPage(result) ==
  /\ report.pc = "request_text"
  /\ report' = [report EXCEPT !.pc = "done", !.result = result,
                              !.content = report_content(result)]
  /\ UNCHANGED <<provider_vars, cred_vars, call_vars, poll_vars, listing, lib_vars>>

NextReport ==
  \/ \E prompt \in Prompts : RequestText(prompt)
  \/ \E result \in PostResults : InsightReportPage(result)

SpecReport == Init /\ [][NextReport]_vars

Summaries == {None, Some("summary A"), Some("summary B")}
DocumentIds == {1, 2}

\* every way the search call can end; a result without a document is 0
SearchResults ==
  {[kind |-> "Err", has_results |-> FALSE, results |-> <<>>, summary |-> None]}
  \cup {[kind |-> "Ok", has_results |-> FALSE, results |-> <<>>, summary |-> s] :
          s \in Summaries}
  \cup {[kind |-> "Ok", has_results |-> TRUE, results |-> rs, summary |-> s] :
          rs \in SeqsUpTo({0} \cup DocumentIds, MaxResults), s \in Summaries}

\* results.into_iter().filter_map(|result| result.document).collect()
RECURSIVE filter_map(_)
filter_map(results) ==
  IF results = <<>> THEN <<>>
  ELSE (IF results[1] # 0 THEN <<results[1]>> ELSE <<>>) \o filter_map(Tail(results))

\* get_documents after client.search(request).await: unwrap() panics on Err;
\* the template gets the documents and a fixed summary_text.
documents_page(result) ==
  IF result.kind = "Err" THEN [kind |-> "panic", docs |-> <<>>, summary_text |-> ""]
  ELSE [kind |-> "page",
        docs |-> filter_map(IF result.has_results THEN result.results ELSE <<>>),
        summary_text |-> "Here are the documents that match your search query."]

\* get_documents builds its request and awaits client.search(request)
GetDocumentsSearch ==
  /\ listing.pc = "idle"
  /\ listing' = [pc |-> "search", result |-> NoSearchResult, page |-> NoPage]
  /\ UNCHANGED <<provider_vars, cred_vars, call_vars, poll_vars, report, lib_vars>>

\* search returns; the handler renders the page
GetDocuments(result) ==
  /\ listing.pc = "search"
  /\ listing' = [pc |-> "done", result |-> result, page |-> documents_page(result)]
  /\ UNCHANGED <<provider_vars, cred_vars, call_vars, poll_vars, report, lib_vars>>

NextListing ==
  \/ GetDocumentsSearch
  \/ \E result \in SearchResults : GetDocuments(result)

SpecListing == Init /\ [][NextListing]_vars

\* ------------------------------------------------- the result types as JSON
\* A field of a result struct: its JSON key (after rename / rename_all), the
\* Rust type of what it holds, whether it is an Option, and whether it has
\* skip_serializing_if = "Option::is_none".  The fields a value holds are
\* opaque ("struct", "array", "map", "enum", "String") except where the type
\* itself decides the round trip: bool, serde_json::Value, f32 and the
\* flattened untagged enum DocumentData.
Field(key, rust, option, skip) ==
  [key |-> key, rust |-> rust, option |-> option, skip |-> skip]

CodecTypes ==
  {"Operation", "DataStore", "SearchResponse", "SearchChunksResponse", "Answer",
   "Document", "Chunk"}

Fields(T) ==
  CASE T = "Operation" ->
         <<Field("name", "String", FALSE, FALSE),
           Field("metadata", "struct", TRUE, TRUE),
           Field("done", "bool", FALSE, FALSE),
           Field("response", "map", TRUE, TRUE)>>
    [] T = "DataStore" ->
         <<Field("name", "String", FALSE, FALSE),
           Field("display_name", "String", FALSE, FALSE),
           Field("industry_vertical", "enum", FALSE, FALSE),
           Field("solution_types", "array", FALSE, FALSE),
           Field("default_schema_id", "String", TRUE, FALSE),
           Field("content_config", "enum", FALSE, FALSE),
           Field("create_time", "String", TRUE, TRUE),
           Field("language_info", "struct", TRUE, TRUE),
           Field("document_processing_config", "struct", TRUE, FALSE),
           Field("starting_schema", "struct", TRUE, FALSE)>>
    [] T = "SearchResponse" ->
         <<Field("results", "array", TRUE, FALSE),
           Field("facets", "array", TRUE, FALSE),
           Field("guidedSearchResult", "struct", TRUE, FALSE),
           Field("totalSize", "i32", TRUE, FALSE),
           Field("attributionToken", "String", TRUE, FALSE),
           Field("redirectUri", "String", TRUE, FALSE),
           Field("nextPageToken", "String", TRUE, FALSE),
           Field("correctedQuery", "String", TRUE, FALSE),
           Field("summary", "struct", TRUE, FALSE),
           Field("appliedControls", "array", TRUE, FALSE),
           Field("geoSearchDebugInfo", "array", TRUE, FALSE),
           Field("queryExpansionInfo", "struct", TRUE, FALSE),
           Field("naturalLanguageQueryUnderstandingInfo", "struct", TRUE, FALSE),
           Field("sessionInfo", "struct", TRUE, FALSE)>>
    [] T = "SearchChunksResponse" ->
         <<Field("chunks", "array", FALSE, FALSE),
           Field("nextPageToken", "String", TRUE, TRUE)>>
    [] T = "Answer" ->
         <<Field("name", "String", FALSE, FALSE),
           Field("state", "enum", FALSE, FALSE),
           Field("answerText", "String", FALSE, FALSE),
           Field("citations", "array", FALSE, FALSE),
           Field("references", "array", FALSE, FALSE),
           Field("relatedQuestions", "array", FALSE, FALSE),
           Field("steps", "array", FALSE, FALSE)>>
    [] T = "Document" ->
         <<Field("name", "String", FALSE, FALSE),
           Field("id", "String", FALSE, FALSE),
           Field("content", "struct", TRUE, FALSE),
           Field("parentDocumentId", "String", TRUE, FALSE),
           Field("derivedStructData", "Value", TRUE, FALSE),
           Field("aclInfo", "struct", TRUE, FALSE),
           Field("indexTime", "String", TRUE, FALSE),
           Field("", "DocumentData", TRUE, FALSE)>>
    [] T = "Chunk" ->
         <<Field("name", "String", FALSE, FALSE),
           Field("id", "String", FALSE, FALSE),
           Field("content", "String", FALSE, FALSE),
           Field("documentMetadata", "struct", FALSE, FALSE),
           Field("deriveStructData", "map", FALSE, FALSE),
           Field("pageSpan", "struct", FALSE, FALSE),
           Field("chunkMetadata", "struct", FALSE, FALSE),
           Field("relevanceScore", "f32", TRUE, TRUE)>>

\* the values a field's type has: Value::Null beside the other JSON values,
\* a non-finite f32 beside the finite ones, the variants of DocumentData
TypeValues(rust) ==
  CASE rust = "bool" -> {"true", "false"}
    [] rust = "Value" -> {"null", "v"}
    [] rust = "f32" -> {"1.5", "inf"}
    [] rust = "DocumentData" -> {"StructData(v)", "StructData(null)", "JsonData(v)"}
    [] OTHER -> {"v"}

FieldValues(f) ==
  {Some(v) : v \in TypeValues(f.rust)} \cup (IF f.option THEN {None} ELSE {})

\* the values of a struct: one value per field, in the order of declaration
RECURSIVE StructValues(_)
StructValues(fs) ==
  IF fs = <<>> THEN {<<>>}
  ELSE {<<v>> \o rest : v \in FieldValues(Head(fs)), rest \in StructValues(Tail(fs))}

\* serde_json's Serializer on a value of the type: a non-finite float is
\* written as null
ToJson(rust, v) == IF rust = "f32" /\ v = "inf" THEN "null" ELSE v

\* #[serde(flatten)] data: Option<DocumentData>, #[serde(untagged)]: the
\* fields of the variant, in the document's own object
FlattenPairs(v) ==
  CASE v = "StructData(v)" -> {<<"struct_data", "v">>}
    [] v = "StructData(null)" -> {<<"struct_data", "null">>}
    [] v = "JsonData(v)" -> {<<"json_data", "v">>}

\* the derived Serialize on one field
FieldPairs(f, v) ==
  IF f.rust = "DocumentData"
  THEN IF v.some THEN FlattenPairs(v.text) ELSE {}
  ELSE IF v.some THEN {<<f.key, ToJson(f.rust, v.text)>>}
  ELSE IF f.skip THEN {}
  ELSE {<<f.key, "null">>}

\* serde_json::to_string(&x): the members of the JSON object
Encode(T, x) ==
  UNION {FieldPairs(Fields(T)[i], x[i]) : i \in 1..Len(Fields(T))}

Has(obj, key) == \E p \in obj : p[1] = key
Get(obj, key) == (CHOOSE p \in obj : p[1] = key)[2]

\* the untagged DocumentData out of the document's object: the first variant
\* whose field is there and of its type; none when no variant fits
FlattenDecoded(obj) ==
  IF Has(obj, "struct_data")
  THEN Some(IF Get(obj, "struct_data") = "null" THEN "StructData(null)"
            ELSE "StructData(v)")
  ELSE IF Has(obj, "json_data") /\ Get(obj, "json_data") # "null"
  THEN Some("JsonData(v)")
  ELSE None

\* the derived Deserialize on one field: an Option is None when the key is
\* missing or holds null; any other type needs the key, and only Value takes
\* null
FieldDecoded(f, obj) ==
  IF f.rust = "DocumentData" THEN [ok |-> TRUE, v |-> FlattenDecoded(obj)]
  ELSE IF ~Has(obj, f.key) \/ (Get(obj, f.key) = "null" /\ (f.option \/ f.rust # "Value"))
  THEN [ok |-> f.option, v |-> None]
  ELSE [ok |-> TRUE, v |-> Some(Get(obj, f.key))]

\* serde_json::from_str::<T>(json)
Decode(T, obj) ==
  IF \A i \in 1..Len(Fields(T)) : FieldDecoded(Fields(T)[i], obj).ok
  THEN [ok |-> TRUE, x |-> [i \in 1..Len(Fields(T)) |-> FieldDecoded(Fields(T)[i], obj).v]]
  ELSE NoDecoded

\* a value of a result type is written as JSON
Serialize(T, x) ==
  /\ codec.stage = "none"
  /\ codec' = [stage |-> "encoded", type |-> T, x |-> x, json |-> Encode(T, x),
               back |-> NoDecoded]
  /\ UNCHANGED <<service_vars, agent_builder, embeding_builder, chunks>>

\* and that JSON is read back as the type
Deserialize ==
  /\ codec.stage = "encoded"
  /\ codec' = [codec EXCEPT !.stage = "decoded",
                            !.back = Decode(codec.type, codec.json)]
  /\ UNCHANGED <<service_vars, agent_builder, embeding_builder, chunks>>

NextCodec ==
  \/ \E T \in CodecTypes : \E x \in StructValues(Fields(T)) : Serialize(T, x)
  \/ Deserialize

SpecCodec == Init /\ [][NextCodec]_vars

\* ------------------------------------------------------ GeminiAgentBuilder
AgentAttributes ==
  <<"project_id", "location_id", "api_endpoint", "gcp_generative_language_api_key">>
AttributeValues == {"a", "b"}

\* a setter that keeps the value it already holds
Setter_KeepFirst(b, attribute, v) ==
  IF b[attribute].some THEN b ELSE [b EXCEPT ![attribute] = Some(v)]

\* the setters project_id, location_id, api_endpoint and
\* gcp_generative_language_api_key: self.<attribute> = Some(v.to_string())
Setter(b, attribute, v) == [b EXCEPT ![attribute] = Some(v)]

Missing(name) == [kind |-> "AgentBuilderMissing", name |-> name, agent |-> NewAgentBuilder]

\* build that looks at the fields before it asks for the provider
GeminiAgentBuilder_build_FieldsFirst(b, provided) ==
  IF ~b.project_id.some THEN Missing("project_id")
  ELSE IF ~b.location_id.some THEN Missing("location_id")
  ELSE IF ~b.api_endpoint.some THEN Missing("api_endpoint")
  ELSE IF ~b.gcp_generative_language_api_key.some
  THEN Missing("gcp_generative_language_api_key")
  ELSE IF ~provided THEN [kind |-> "GCPAuth", name |-> "", agent |-> NewAgentBuilder]
  ELSE [kind |-> "Ok", name |-> "", agent |-> b]

\* GeminiAgentBuilder::build: gcp_auth::provider().await.map_err(GCPAuth)?,
\* then each field's ok_or(AgentBuilderMissing(..))? in turn
GeminiAgentBuilder_build(b, provided) ==
  IF ~provided THEN [kind |-> "GCPAuth", name |-> "", agent |-> NewAgentBuilder]
  ELSE IF ~b.project_id.some THEN Missing("project_id")
  ELSE IF ~b.location_id.some THEN Missing("location_id")
  ELSE IF ~b.api_endpoint.some THEN Missing("api_endpoint")
  ELSE IF ~b.gcp_generative_language_api_key.some
  THEN Missing("gcp_generative_language_api_key")
  ELSE [kind |-> "Ok", name |-> "", agent |-> b]

\* a setter is called on the builder
AgentSet(attribute, v) ==
  /\ agent_builder.pc = "new"
  /\ agent_builder' = [agent_builder EXCEPT
                         !.b = Setter(@, attribute, v),
                         !.given = [@ EXCEPT ![attribute] = Some(v)]]
  /\ UNCHANGED <<service_vars, codec, embeding_builder, chunks>>

\* build consumes the builder; the credential source answers or fails
AgentBuild(provided) ==
  /\ agent_builder.pc = "new"
  /\ agent_builder' = [agent_builder EXCEPT
                         !.pc = IF provided THEN "built" ELSE "built_without_provider",
                         !.result = GeminiAgentBuilder_build(agent_builder.b, provided)]
  /\ UNCHANGED <<service_vars, codec, embeding_builder, chunks>>

NextAgentBuilder ==
  \/ \E i \in DOMAIN AgentAttributes, v \in AttributeValues :
       AgentSet(AgentAttributes[i], v)
  \/ \E provided \in BOOLEAN : AgentBuild(provided)

SpecAgentBuilder == Init /\ [][NextAgentBuilder]_vars

\* -------------------------------------------------- EmbedingRequestBuilder
MaxPartsGiven == 2
MaxBuilderCalls == 3
Parts == {"p", "q"}
PartLists == SeqsUpTo(Parts, MaxPartsGiven)
ModelNames == {"text-embedding-004"}
Roles == {"user"}

\* EmbedingRequestBuilder::model, ::role and ::parts
model(b, v) == [b EXCEPT !.model = Some(v)]
role(b, v) == [b EXCEPT !.role = Some(v)]
parts(b, list) == [b EXCEPT !.parts = [some |-> TRUE, list |-> list]]

\* add_part that starts a new list
add_part_Replace(b, part) ==
  [b EXCEPT !.parts = [some |-> TRUE, list |-> <<part>>]]

\* EmbedingRequestBuilder::add_part: self.parts.unwrap_or_default(), push
add_part(b, part) ==
  LET list == IF b.parts.some THEN b.parts.list ELSE <<>> IN
  [b EXCEPT !.parts = [some |-> TRUE, list |-> Append(list, part)]]

RequestMissing(name) == [NoEmbedingRequest EXCEPT !.kind = "AgentBuilderMissing", !.name = name]

\* EmbedingRequestBuilder::build
EmbedingRequestBuilder_build(b) ==
  IF ~b.model.some THEN RequestMissing("model")
  ELSE IF ~b.role.some THEN RequestMissing("role")
  ELSE IF ~b.parts.some THEN RequestMissing("parts")
  ELSE [kind |-> "Ok", name |-> "", model |-> b.model.text, role |-> b.role.text,
        parts |-> b.parts.list]

\* one method of the builder is called; the calls that touch the parts are
\* logged with their argument
EmbedingCall(op, arg) ==
  /\ embeding_builder.pc = "new"
  /\ op \in {"parts", "add_part"} => Len(embeding_builder.log) < MaxBuilderCalls
  /\ embeding_builder' =
       [embeding_builder EXCEPT
          !.b = CASE op = "model" -> model(@, arg[1])
                  [] op = "role" -> role(@, arg[1])
                  [] op = "parts" -> parts(@, arg)
                  [] op = "add_part" -> add_part(@, arg[1]),
          !.log = IF op \in {"parts", "add_part"}
                  THEN Append(@, [op |-> op, arg |-> arg]) ELSE @]
  /\ UNCHANGED <<service_vars, codec, agent_builder, chunks>>

EmbedingBuild ==
  /\ embeding_builder.pc = "new"
  /\ embeding_builder' =
       [embeding_builder EXCEPT
          !.pc = "built",
          !.result = EmbedingRequestBuilder_build(embeding_builder.b)]
  /\ UNCHANGED <<service_vars, codec, agent_builder, chunks>>

NextEmbedingBuilder ==
  \/ \E m \in ModelNames : EmbedingCall("model", <<m>>)
  \/ \E r \in Roles : EmbedingCall("role", <<r>>)
  \/ \E list \in PartLists : EmbedingCall("parts", list)
  \/ \E part \in Parts : EmbedingCall("add_part", <<part>>)
  \/ EmbedingBuild

SpecEmbedingBuilder == Init /\ [][NextEmbedingBuilder]_vars

\* ------------------------------------------------------ ParagraphGenerator
\* A string is the sequence of its characters.
MaxContentLen == 6
Chars == {"a", "\n"}
Contents == SeqsUpTo(Chars, MaxContentLen)

\* where the pattern "\n\n" first matches in s, or 0
FirstMatch(s) ==
  LET at == {i \in 1..(Len(s) - 1) : s[i] = "\n" /\ s[i + 1] = "\n"} IN
  IF at = {} THEN 0 ELSE CHOOSE i \in at : \A j \in at : i <= j

\* split that yields no empty last piece (str::split_terminator)
RECURSIVE generate_NoEmptyTail(_)
generate_NoEmptyTail(s) ==
  IF FirstMatch(s) = 0 THEN (IF s = <<>> THEN <<>> ELSE <<s>>)
  ELSE <<SubSeq(s, 1, FirstMatch(s) - 1)>>
         \o generate_NoEmptyTail(SubSeq(s, FirstMatch(s) + 2, Len(s)))

\* ParagraphGenerator::generate: content.split("\n\n").map(String::from)
\* .collect(): the pieces between the matches found from left to right, each
\* search starting behind the match before it
RECURSIVE generate(_)
generate(s) ==
  IF FirstMatch(s) = 0 THEN <<s>>
  ELSE <<SubSeq(s, 1, FirstMatch(s) - 1)>>
         \o generate(SubSeq(s, FirstMatch(s) + 2, Len(s)))

\* Content::gen_chunks(ParagraphGenerator) on a Content holding the string
GenChunks(content) ==
  /\ chunks.pc = "idle"
  /\ chunks' = [pc |-> "done", content |-> content, out |-> generate(content)]
  /\ UNCHANGED <<service_vars, codec, agent_builder, embeding_builder>>

NextChunks == \E content \in Contents : GenChunks(content)

SpecChunks == Init /\ [][NextChunks]_vars

\* ==================================================================== claims
Finished(t) == pc[t] = "idle" /\ outcome[t] # NoOutcome

NetworkCalls(t) ==
  attempts[t].provider + attempts[t].token + (IF req[t] # NoRequest THEN 1 ELSE 0)

C2_MalformedUrlBeforeNetwork ==
  \A t \in Tasks :
    (Finished(t) /\ cur[t].op \in RawOps /\ ~UrlParse(cur[t].url).ok /\ ~acqfail[t]) =>
       (outcome[t].kind = "UrlParseError" /\ NetworkCalls(t) = 0)

\* C3: no request is issued before the call's token request has completed,
\* and every request issued carries Authorization: Bearer <token> built from
\* the token obtained in the same call.
C3_BearerOnEveryRequest ==
  \A t \in Tasks :
    /\ pc[t] \in {"get_or_init", "acquire_wait", "provider", "token"} =>
         req[t] = NoRequest
    /\ (cur[t].op \in RawOps /\ req[t] # NoRequest) =>
         /\ tok[t] # NoToken
         /\ tok[t].id \in 1..acquisitions
         /\ req[t].headers = BearerOf(tok[t])

C3_Witness ==
  \E t \in Tasks :
    /\ pc[t] = "http"
    /\ cur[t].op = "api_post"
    /\ tok[t] # NoToken
    /\ req[t].headers = BearerOf(tok[t])

\* C4: a call in which a credential acquisition failed returns ProviderError as
\* a value, after one attempt of that acquisition and without an HTTP request.
C4_AuthErrorIsReturned ==
  \A t \in Tasks :
    (Finished(t) /\ acqfail[t]) =>
       /\ outcome[t].kind = "ProviderError"
       /\ attempts[t].provider <= 1 /\ attempts[t].token <= 1
       /\ req[t] = NoRequest

C5_SameCredential ==
  \A t1, t2 \in Tasks :
    (/\ tok[t1] # NoToken /\ tok[t2] # NoToken
     /\ cur[t1].scopes = cur[t2].scopes
     /\ tokwin[t1] = tokwin[t2]) =>
       /\ tok[t1] = tok[t2]
       /\ (req[t1] # NoRequest /\ req[t2] # NoRequest) =>
             req[t1].headers = req[t2].headers

C5_NoSecondAcquisition ==
  /\ acquisitions' # acquisitions =>
       \E S \in ScopeSets : cred[S] = NoToken /\ cred'[S] # NoToken
  /\ \A t \in Tasks :
       attempts'[t].token > attempts[t].token => cred[cur[t].scopes] = NoToken
  /\ \A S \in ScopeSets :
       cred[S] # NoToken => cred'[S] \in {cred[S], NoToken}

\* C5: within one validity window of a scope set's credential, every token
\* call for that scope set returns the same credential and makes no further
\* underlying acquisition, so the calls' requests carry the same bearer token.
C5_CachedWithinWindow == []C5_SameCredential /\ [][C5_NoSecondAcquisition]_vars

C5_Witness ==
  \E t1, t2 \in Tasks :
    /\ t1 # t2
    /\ cur[t1].scopes = cur[t2].scopes
    /\ tokwin[t1] = tokwin[t2]
    /\ req[t1] # NoRequest /\ req[t2] # NoRequest
    /\ req[t1].headers = req[t2].headers
    /\ attempts[t1].token + attempts[t2].token = 1

\* ---------------------------------------------------------------- the poller
AllPending(n) == \A i \in 1..n : fetched[i] = "pending"

\* C6: when the first N-1 fetches report done = false and the N-th reports
\* done = true, N <= max_retries, poll has returned success after exactly N
\* fetches and has issued no fetch after it.
C6_SuccessAfterNFetches ==
  \A N \in 1..Len(fetched) :
    (fetched[N] = "done" /\ AllPending(N - 1) /\ N <= max_retries) =>
       /\ poll_pc = "returned"
       /\ poll_result = "success"
       /\ Len(fetched) = N
       /\ issued = N

C6_Witness ==
  /\ poll_result = "success"
  /\ max_retries = MaxRetriesArg
  /\ Len(fetched) = max_retries
  /\ AllPending(max_retries - 1)

\* C7: poll never fetches more than max_retries times; when max_retries
\* fetches have all reported done = false it has returned the timeout outcome
\* as a value, and never before that; the default budget is 20.
C7_TimeoutAfterMaxRetries ==
  poll_pc # "idle" =>
    /\ Len(fetched) <= max_retries /\ issued <= max_retries
    /\ max_retries \in (1..MaxRetriesArg) \cup {DefaultMaxRetries}
    /\ (AllPending(Len(fetched)) /\ Len(fetched) = max_retries) =>
          (poll_pc = "returned" /\ poll_result = "timeout" /\ issued = max_retries)
    /\ (AllPending(Len(fetched)) /\ Len(fetched) < max_retries) =>
          (poll_pc # "returned" /\ poll_result = "none")
    /\ poll_result = "timeout" =>
          (AllPending(Len(fetched)) /\ Len(fetched) = max_retries)
    /\ poll_result \in {"none", "success", "timeout", "failure"}

C7_Witness ==
  /\ max_retries = DefaultMaxRetries
  /\ poll_pc = "returned"
  /\ poll_result = "timeout"
  /\ Len(fetched) = 20 /\ issued = 20

\* C8: a failed status fetch is the last one: poll has returned failure and
\* issued no fetch after it, whatever is left of the retry budget.
C8_FetchFailureStops ==
  \A i \in 1..Len(fetched) :
    fetched[i] = "failed" =>
       /\ i = Len(fetched)
       /\ issued = i
       /\ poll_pc = "returned"
       /\ poll_result = "failure"

C8_Witness ==
  /\ poll_result = "failure"
  /\ Len(fetched) = 2
  /\ fetched[2] = "failed"
  /\ retries + 1 < max_retries

\* the last fetch got a success-status Operation with done = true
DoneSnapshot ==
  /\ last_resp # NoResponse
  /\ ~error_for_status(last_resp)
  /\ last_resp.body.json
  /\ {<<"name", "string">>, <<"done", "bool">>} \subseteq last_resp.body.fields
  /\ last_resp.body.done

C10_NonSuccessIsHttpStatus ==
  \A t \in Tasks :
    (Finished(t) /\ cur[t].op \in TypedOps /\ resp[t] # NoResponse
     /\ resp[t].status \notin 200..299) =>
       (outcome[t].kind = "HttpStatus" /\ outcome[t].status = resp[t].status)


\* ---------------------------------------------------------- the raw client
\* the call of task t issued its request and send() failed
TransportFailed(t) == req[t] # NoRequest /\ resp[t] = NoResponse

\* C11: api_post, api_get_with_params and api_delete return Ok(response) for
\* every status the remote answers with, 4xx and 5xx included; an Err they
\* return is ProviderError after a failed token acquisition, ClientError after
\* a failed send, or an error for a url that does not parse.
C11_RawResponseIsOk ==
  \A t \in Tasks :
    (Finished(t) /\ cur[t].op \in RawOps) =>
      /\ resp[t] # NoResponse =>
           /\ outcome[t].kind = "Ok"
           /\ outcome[t].status = resp[t].status
           /\ outcome[t].detail = "response"
           /\ outcome[t].body = resp[t].body
      /\ outcome[t].kind \notin {"Ok", "panic"} =>
           \/ outcome[t].kind = "ProviderError" /\ acqfail[t]
           \/ outcome[t].kind = "ClientError" /\ TransportFailed(t)
           \/ outcome[t].kind \in {"ClientError", "UrlParseError"}
                /\ ~UrlParse(cur[t].url).ok /\ req[t] = NoRequest

C11_Witness ==
  \E t \in Tasks :
    /\ Finished(t) /\ cur[t].op = "api_delete"
    /\ resp[t].status = 500
    /\ outcome[t].kind = "Ok"


\* ------------------------------------------------- one call, one request
ErrorKinds ==
  {"ClientError", "HttpStatus", "ResponseJsonParsing", "HTTPClient",
   "ProviderError", "UrlParseError"}

\* Built, Sent and the terminal states of a typed call, with what each state
\* has sent and received.
OneRequest(t, terminal) ==
  /\ sends[t] <= 1
  /\ pc[t] # "idle" => outcome[t] = NoOutcome
  /\ pc[t] = "http" => (sends[t] = 1 /\ req[t] # NoRequest /\ resp[t] = NoResponse)
  /\ Finished(t) =>
       /\ outcome[t].kind \in terminal
       /\ outcome[t].kind = "Ok" =>
            /\ sends[t] = 1 /\ resp[t] # NoResponse
            /\ outcome[t].value.type = ResultType(cur[t].op)
       /\ outcome[t].kind \in {"HttpStatus", "ResponseJsonParsing"} =>
            (sends[t] = 1 /\ resp[t] # NoResponse)
       /\ resp[t] = NoResponse => outcome[t].kind # "Ok"

\* a terminal outcome stays as it is, and nothing is sent after it, until the
\* caller makes its next call
OutcomeIsFinal ==
  \A t \in Tasks :
    (Finished(t) /\ pc'[t] = "idle") =>
       (outcome'[t] = outcome[t] /\ sends'[t] = sends[t] /\ req'[t] = req[t])

C12_OneRequestState ==
  \A t \in Tasks :
    cur[t].op \in TypedOps =>
      /\ OneRequest(t, {"Ok", "panic"} \cup ErrorKinds)
      /\ (Finished(t) /\ outcome[t].kind = "panic") => sends[t] = 0

C13_NotFoundKeepsBody ==
  \A t \in Tasks :
    (Finished(t) /\ cur[t].op = "delete_data_store"
     /\ resp[t].status = 404 /\ resp[t].body = ErrorBody) =>
       /\ outcome[t].kind = "HttpStatus"
       /\ outcome[t].status = 404
       /\ outcome[t].body = resp[t].body


\* ------------------------------------------------------------ decode errors
\* C14: a typed endpoint call answered with a success status and a body that
\* does not decode into its result type returns ResponseJsonParsing, and a
\* typed result is only ever built from a body that decodes.
C14_DecodeMismatchIsJsonParsing ==
  \A t \in Tasks :
    (Finished(t) /\ cur[t].op \in TypedOps /\ resp[t] # NoResponse
     /\ resp[t].status \in 200..299) =>
       /\ ~Decodes(ResultType(cur[t].op), resp[t].body) =>
            outcome[t].kind = "ResponseJsonParsing"
       /\ outcome[t].kind = "Ok" =>
            Decodes(ResultType(cur[t].op), resp[t].body)


\* -------------------------------------------------- create_data_store's url
\* the url pieces after ".../projects/"
AfterProjects(u) == SubSeq(u, 4, Len(u))

CreateUrlTail(p, c, d, b) ==
  <<p, "/locations/", "global", "/collections/", c, "/dataStores", "?",
    "dataStoreId", "=", d, "&", "createAdvancedSiteSearch", "=", b>>

\* C15: create_data_store with project p, collections c and id d sends one
\* POST to .../projects/p/locations/global/collections/c/dataStores
\* ?dataStoreId=d&createAdvancedSiteSearch=b, b being "false" for None and the
\* given boolean otherwise.
C15_CreateDataStoreUrl ==
  \A t \in Tasks :
    (cur[t].op = "create_data_store" /\ req[t] # NoRequest) =>
      LET rq == cur[t].rq
          b == CASE rq.create_advance_site_search = "None" -> "false"
                 [] rq.create_advance_site_search = "Some(true)" -> "true"
                 [] rq.create_advance_site_search = "Some(false)" -> "false"
      IN /\ sends[t] = 1
         /\ req[t].method = "POST"
         /\ req[t].url[1] = "https:"
         /\ req[t].url[2] = "//discoveryengine.googleapis.com"
         /\ req[t].url[3] \in {"/v1beta/projects/", "/v1/projects/"}
         /\ AfterProjects(req[t].url) =
              CreateUrlTail(rq.project_id, rq.collections, rq.data_store_id, b)

C15_Witness ==
  \E t \in Tasks :
    /\ cur[t].op = "create_data_store"
    /\ cur[t].rq = Args("p1", "default_collection", "ds1", "None")
    /\ req[t].method = "POST"
    /\ AfterProjects(req[t].url) =
         <<"p1", "/locations/", "global", "/collections/", "default_collection",
           "/dataStores", "?", "dataStoreId", "=", "ds1", "&",
           "createAdvancedSiteSearch", "=", "false">>


\* ------------------------------------------------ operations are not awaited
OperationOps == {"create_data_store", "delete_data_store"}

\* C16: create_data_store and delete_data_store return the Operation decoded
\* from their one response, done as the remote reported it; they start no
\* poll and fetch nothing else, and the caller's next call is sent whether or
\* not the operation it holds is done.
C16_OperationAsReported ==
  \A t \in Tasks :
    /\ (Finished(t) /\ cur[t].op \in OperationOps /\ outcome[t].kind = "Ok") =>
          /\ outcome[t].value.type = "Operation"
          /\ outcome[t].value.done = resp[t].body.done
          /\ outcome[t].value.name = resp[t].body.name
          /\ sends[t] = 1
    /\ cur[t].op \in OperationOps => (poll_pc = "idle" /\ issued = 0)
    /\ prior[t].op # "none" => prior[t].op \in OperationOps

C16_Witness ==
  \E t \in Tasks :
    /\ prior[t] = [op |-> "create_data_store", done |-> FALSE]
    /\ cur[t].op = "delete_data_store"
    /\ req[t].method = "DELETE"
    /\ Finished(t) /\ outcome[t].kind = "Ok" /\ ~outcome[t].value.done


\* ------------------------------------------- a failed provider initialisation
InitPanic(t) ==
  /\ outcome[t].kind = "panic"
  /\ outcome[t].detail = "unable to initialize token provider"

C17_FailedInitState ==
  /\ \A t \in Tasks :
       /\ attempts[t].provider <= 1
       /\ InitPanic(t) =>
            /\ pc[t] = "idle"
            /\ attempts[t].provider = 1
            /\ attempts[t].token = 0
            /\ sends[t] = 0 /\ req[t] = NoRequest
  /\ (TOKEN_PROVIDER = 0) = (provider_ok = 0)
  /\ provider_ok <= 1

\* every failed initialisation is the first attempt of the call it panics
C17_FailureEndsTheCall ==
  provider_err' > provider_err =>
    \E t \in Tasks :
      /\ pc[t] = "provider" /\ attempts[t].provider = 0
      /\ pc'[t] = "idle" /\ outcome'[t].kind = "panic"
      /\ TOKEN_PROVIDER' = 0 /\ permit' = 0

RouteWords ==
  {"https:", DiscoveryEngine, "/v1/projects/", "/v1beta/projects/",
   "/v1alpha/projects/", "/v1beta/", "projects/", "/locations/", "/collections/",
   "/dataStores", "/dataStores/", "/global:setUpDataConnector", ":search",
   ":answer", "?", "=", "&", "dataStoreId", "createAdvancedSiteSearch",
   "data_store_id", "true", "false"}

\* C18: the url of a typed endpoint call is made of the route's words, the
\* literal location "global" and the caller's project id, collection and
\* resource id, and of nothing else.
C18_UrlFromPathParamsOnly ==
  \A t \in Tasks :
    (cur[t].op \in TypedOps /\ cur[t].rq # NoArgs /\ req[t] # NoRequest) =>
      \A i \in 1..Len(req[t].url) :
        req[t].url[i] \in RouteWords
          \cup {"global", cur[t].rq.project_id, cur[t].rq.collections,
                cur[t].rq.data_store_id}


\* ------------------------------------------------------------ page handlers
\* C19: whatever the Gemini call returns, the report's content is one string:
\* the text of the first part of the first candidate, or the sentinel
\* "no answer from Gemini".
C19_ReportIsTextOrSentinel ==
  report.pc = "done" =>
    /\ report.content.kind = "string"
    /\ \/ report.content.text = "no answer from Gemini"
       \/ /\ report.result.kind = "Rest"
          /\ Len(report.result.candidates) >= 1
          /\ Len(report.result.candidates[1]) >= 1
          /\ report.result.candidates[1][1] = Some(report.content.text)

HasDocument(d) == d # 0

\* C20: the documents page lists the documents of the search results in the
\* order the remote returned them, leaving out only results without a
\* document, with the summary of the response when it has one and none
\* otherwise.
C20_DocumentsAndSummary ==
  (listing.pc = "done" /\ listing.result.kind = "Ok") =>
    /\ listing.page.kind = "page"
    /\ listing.page.docs = SelectSeq(listing.result.results, HasDocument)
    /\ listing.page.summary_text =
         (IF listing.result.summary.some THEN listing.result.summary.text ELSE "")


\* ------------------------------------------------------------- round trips
\* C21: for every result type and every value of it, decoding the JSON
\* encoding of the value yields the value again.
C21_RoundTrip ==
  codec.stage = "decoded" => codec.back = [ok |-> TRUE, x |-> codec.x]

\* the same for the values that hold no Value::Null in an Option and no
\* non-finite float
Representable(T, x) ==
  \A i \in 1..Len(Fields(T)) :
    ~(/\ Fields(T)[i].rust \in {"Value", "f32"}
      /\ Fields(T)[i].option
      /\ x[i].some
      /\ ToJson(Fields(T)[i].rust, x[i].text) = "null")

C21_RoundTripOfRepresentable ==
  (codec.stage = "decoded" /\ Representable(codec.type, codec.x)) =>
    codec.back = [ok |-> TRUE, x |-> codec.x]

C21_Witness ==
  /\ codec.stage = "decoded"
  /\ codec.type = "Operation"
  /\ ~codec.x[2].some
  /\ ~Has(codec.json, "metadata")
  /\ codec.back = [ok |-> TRUE, x |-> codec.x]


\* ------------------------------------------------------------------ scopes
\* C22: every typed endpoint call that asks for a token asks for exactly one
\* scope, https://www.googleapis.com/auth/cloud-platform: the scopes it hands
\* to the client are that one scope, and no credential is ever acquired for an
\* empty or another scope set.
C22_OneFixedScope ==
  /\ \A t \in Tasks :
       (cur[t].op \in TypedOps /\ (pc[t] \in {"get_or_init", "token"} \/ attempts[t].token > 0)) =>
         /\ Len(cur[t].scopes) = 1
         /\ cur[t].scopes[1] = "https://www.googleapis.com/auth/cloud-platform"
  /\ \A S \in ScopeSets :
       (cred[S] # NoToken \/ window[S] > 0) =>
         S = <<"https://www.googleapis.com/auth/cloud-platform">>

C22_Witness ==
  \E t \in Tasks :
    /\ cur[t].op = "search_chunks"
    /\ attempts[t].token = 1
    /\ req[t] # NoRequest
    /\ cred[<<"https://www.googleapis.com/auth/cloud-platform">>] # NoToken
    /\ tok[t] = cred[cur[t].scopes]


\* ------------------------------------------------ an Operation still running
\* C23: when the remote answers a create-data-store POST with a success
\* status and the body {"name":"op1","done":false}, create_data_store returns
\* Ok(Operation) with name "op1" and done false, in VertexClient as in
\* DataStoreClient.
C23_PendingOperationDecodes ==
  \A t \in Tasks :
    (/\ Finished(t)
     /\ cur[t].op \in {"create_data_store", "VertexClient::create_data_store"}
     /\ resp[t] # NoResponse
     /\ resp[t].status \in 200..299
     /\ resp[t].body = OperationBody("op1", FALSE, {})) =>
       /\ outcome[t].kind = "Ok"
       /\ outcome[t].value.name = "op1"
       /\ ~outcome[t].value.done

\* the same for DataStoreClient alone
C23_DataStoreClientDecodes ==
  \A t \in Tasks :
    (/\ Finished(t)
     /\ cur[t].op = "create_data_store"
     /\ resp[t] # NoResponse
     /\ resp[t].status \in 200..299
     /\ resp[t].body = OperationBody("op1", FALSE, {})) =>
       /\ outcome[t].kind = "Ok"
       /\ outcome[t].value.name = "op1"
       /\ ~outcome[t].value.done


\* ------------------------------------------- the token before the url check
\* C24: api_get_with_params, api_get and api_delete ask for the token before
\* they parse the url: a call with a malformed url that returns has asked for
\* a token and sent nothing; it returns UrlParseError when the token was
\* obtained and ProviderError when the acquisition failed.
C24_TokenBeforeUrlParse ==
  \A t \in Tasks :
    (/\ Finished(t)
     /\ cur[t].api \in {"api_get_with_params", "api_delete"}
     /\ ~UrlParse(cur[t].url).ok
     /\ outcome[t].kind # "panic") =>
       /\ seen[t] # 0
       /\ req[t] = NoRequest
       /\ attempts[t].token <= 1
       /\ acqfail[t] => (outcome[t].kind = "ProviderError" /\ attempts[t].token = 1)
       /\ ~acqfail[t] => (outcome[t].kind = "UrlParseError" /\ tok[t] # NoToken)

\* one call with a malformed url was denied its token, another obtained one
C24_Witness ==
  \E t1, t2 \in Tasks :
    /\ Finished(t1) /\ Finished(t2)
    /\ cur[t1].api = "api_get_with_params" /\ cur[t2].api = "api_delete"
    /\ ~UrlParse(cur[t1].url).ok /\ ~UrlParse(cur[t2].url).ok
    /\ acqfail[t1] /\ outcome[t1].kind = "ProviderError"
    /\ tok[t2] # NoToken /\ outcome[t2].kind = "UrlParseError"


\* ------------------------------------------------ api_post checks no url
\* C25: api_post never returns UrlParseError; given a malformed url it asks
\* for the token first and then returns ClientError, having sent nothing (or
\* ProviderError when the token acquisition failed).
C25_PostNeverUrlParseError ==
  \A t \in Tasks :
    (Finished(t) /\ cur[t].api = "api_post") =>
       /\ outcome[t].kind # "UrlParseError"
       /\ (~UrlParse(cur[t].url).ok /\ outcome[t].kind # "panic") =>
            /\ seen[t] # 0
            /\ req[t] = NoRequest
            /\ acqfail[t] => outcome[t].kind = "ProviderError"
            /\ ~acqfail[t] => (outcome[t].kind = "ClientError" /\ tok[t] # NoToken)

C25_Witness ==
  \E t \in Tasks :
    /\ Finished(t)
    /\ cur[t].op = "api_post"
    /\ ~UrlParse(cur[t].url).ok
    /\ tok[t] # NoToken
    /\ outcome[t].kind = "ClientError"
    /\ sends[t] = 0


\* --------------------------------------------------- the provider is kept
\* C26: once TOKEN_PROVIDER holds a provider no step resets or replaces it,
\* whichever task takes the step and whatever it fails at, and every task
\* that is given a provider, for whatever scopes, is given that instance.
C26_ProviderNeverReplaced ==
  /\ [](\A t \in Tasks : seen[t] # 0 => seen[t] = TOKEN_PROVIDER)
  /\ [][TOKEN_PROVIDER # 0 => TOKEN_PROVIDER' = TOKEN_PROVIDER]_vars

\* a call was denied its token, another call's exchange failed in transport,
\* the two asked for different scopes, and both hold the stored provider
C26_Witness ==
  \E t1, t2 \in Tasks :
    /\ Finished(t1) /\ acqfail[t1] /\ outcome[t1].kind = "ProviderError"
    /\ Finished(t2) /\ TransportFailed(t2)
    /\ cur[t1].scopes # cur[t2].scopes
    /\ TOKEN_PROVIDER # 0
    /\ seen[t1] = TOKEN_PROVIDER /\ seen[t2] = TOKEN_PROVIDER


\* ------------------------------------------- what search_chunks leaves out
\* C27: search_chunks sends a GET without body and without query string, and
\* the request is the one every SearchChunksRequest with the same project_id,
\* collections and data_store_id produces, whatever its query, serving_config,
\* page_size, page_token, offset, filter, order_by and content_search_spec.
C27_SearchChunksIgnoresQuery ==
  \A t \in Tasks :
    (cur[t].op = "search_chunks" /\ req[t] # NoRequest) =>
       /\ req[t].method = "GET"
       /\ req[t].body = "none"
       /\ \A i \in 1..Len(req[t].url) : req[t].url[i] # "?"
       /\ \A s \in SearchChunksFields :
            Dispatch(search_chunks([cur[t].rq EXCEPT !.search = s]), req[t].headers)
              = Sent(req[t])

C27_Witness ==
  \E t \in Tasks :
    /\ cur[t].op = "search_chunks"
    /\ cur[t].rq.search.query = "q3"
    /\ cur[t].rq.search.page_size = "Some(10)"
    /\ req[t].method = "GET"
    /\ Finished(t) /\ outcome[t].kind = "Ok"


\* ------------------------------------------------- GeminiAgentBuilder::build
\* the attributes not set, in the order build asks for them
UnsetAttributes ==
  SelectSeq(AgentAttributes, LAMBDA a : ~agent_builder.given[a].some)

\* C28: build returns GCPAuth when the credential source fails, whatever
\* fields are set; otherwise AgentBuilderMissing naming the first unset
\* attribute in the order project_id, location_id, api_endpoint,
\* gcp_generative_language_api_key; and Ok only when all four were set, each
\* field holding the last value given to its setter.
C28_BuildChecksInOrder ==
  agent_builder.pc # "new" =>
    /\ agent_builder.pc = "built_without_provider" =>
         agent_builder.result.kind = "GCPAuth"
    /\ (agent_builder.pc = "built" /\ UnsetAttributes # <<>>) =>
         /\ agent_builder.result.kind = "AgentBuilderMissing"
         /\ agent_builder.result.name = Head(UnsetAttributes)
    /\ (agent_builder.pc = "built" /\ UnsetAttributes = <<>>) =>
         agent_builder.result.kind = "Ok"
    /\ agent_builder.result.kind = "Ok" =>
         /\ UnsetAttributes = <<>>
         /\ agent_builder.result.agent = agent_builder.given

\* build with project_id and location_id set and the other two missing
C28_Witness ==
  /\ agent_builder.pc = "built"
  /\ agent_builder.result.kind = "AgentBuilderMissing"
  /\ agent_builder.result.name = "api_endpoint"
  /\ agent_builder.given.project_id = Some("b")
  /\ agent_builder.given.location_id.some
  /\ ~agent_builder.given.gcp_generative_language_api_key.some


\* --------------------------------------------- EmbedingRequestBuilder's parts
\* the list the logged calls stand for: that of the last parts(..) call, or
\* the empty list, followed by the parts added after it
RECURSIVE PartsOf(_)
PartsOf(log) ==
  IF log = <<>> THEN <<>>
  ELSE IF log[Len(log)].op = "parts" THEN log[Len(log)].arg
  ELSE PartsOf(SubSeq(log, 1, Len(log) - 1)) \o log[Len(log)].arg

\* C29: after any sequence of parts(..) and add_part(..) calls the builder's
\* parts are the list of the last parts(..) call (empty if there was none)
\* followed by the parts of the later add_part calls in call order; build
\* returns that list, or AgentBuilderMissing naming the first unset attribute
\* in the order model, role, parts.
C29_PartsInCallOrder ==
  /\ embeding_builder.b.parts.some <=> embeding_builder.log # <<>>
  /\ embeding_builder.b.parts.list = PartsOf(embeding_builder.log)
  /\ embeding_builder.pc = "built" =>
       LET b == embeding_builder.b
           r == embeding_builder.result IN
       /\ (~b.model.some) => (r.kind = "AgentBuilderMissing" /\ r.name = "model")
       /\ (b.model.some /\ ~b.role.some) =>
            (r.kind = "AgentBuilderMissing" /\ r.name = "role")
       /\ (b.model.some /\ b.role.some /\ embeding_builder.log = <<>>) =>
            (r.kind = "AgentBuilderMissing" /\ r.name = "parts")
       /\ (b.model.some /\ b.role.some /\ embeding_builder.log # <<>>) =>
            (r.kind = "Ok" /\ r.parts = PartsOf(embeding_builder.log))

\* parts(..) after an add_part, then another add_part, then build
C29_Witness ==
  /\ embeding_builder.pc = "built"
  /\ embeding_builder.result.kind = "Ok"
  /\ Len(embeding_builder.log) = 3
  /\ embeding_builder.log[1].op = "add_part"
  /\ embeding_builder.log[2] = [op |-> "parts", arg |-> <<"p", "q">>]
  /\ embeding_builder.log[3] = [op |-> "add_part", arg |-> <<"p">>]
  /\ embeding_builder.result.parts = <<"p", "q", "p">>


\* ------------------------------------------------------ paragraphs of a text
\* the pieces joined with "\n\n"
RECURSIVE Joined(_)
Joined(pieces) ==
  IF Len(pieces) = 1 THEN pieces[1]
  ELSE pieces[1] \o <<"\n", "\n">> \o Joined(Tail(pieces))

\* C30: for every input, generate returns a non-empty sequence of substrings
\* none of which contains "\n\n", and joining them with "\n\n" gives back the
\* input; the empty input yields the single chunk "".
C30_ParagraphsRejoin ==
  chunks.pc = "done" =>
    /\ Len(chunks.out) >= 1
    /\ \A i \in 1..Len(chunks.out) : FirstMatch(chunks.out[i]) = 0
    /\ Joined(chunks.out) = chunks.content
    /\ chunks.content = <<>> => chunks.out = << <<>> >>

\* a text with three newlines in a row and one ending in an empty paragraph
C30_Witness ==
  /\ chunks.pc = "done"
  /\ chunks.content = <<"a", "\n", "\n", "\n", "\n", "\n">>
  /\ chunks.out = << <<"a">>, <<>>, <<"\n">> >>

====
